---- MODULE Spec2Model ----
(***************************************************************************)
(* Voice-command interpretation (src/utils/nlp.ts) and the dialogue        *)
(* controller that drives it (src/components/VoiceSearchAssistant.tsx,     *)
(* mounted by src/pages/Inventory.tsx).                                    *)
(*                                                                         *)
(* An utterance is a TLA+ string; a Partial<CarFilters> or an entities     *)
(* object is a function whose domain is the set of keys that are present.  *)
(***************************************************************************)
EXTENDS Integers, Sequences, FiniteSets, TLC

(***************************************************************************)
(* Bounds                                                                  *)
(***************************************************************************)
\* number of final transcripts delivered in one behaviour
MaxTurns == 2

(***************************************************************************)
(* JavaScript string primitives                                            *)
(***************************************************************************)
Min(S) == CHOOSE m \in S : \A n \in S : m <= n
Max(S) == CHOOSE m \in S : \A n \in S : m >= n

\* F(v), with the argument evaluated once and then passed as a value
Eval(F(_), v) == CHOOSE r \in {F(x) : x \in {v}} : TRUE

\* s[i], or "" outside the string
At(s, i) == IF i >= 1 /\ i <= Len(s) THEN SubSeq(s, i, i) ELSE ""

UpperCase == "ABCDEFGHIJKLMNOPQRSTUVWXYZ"
LowerCase == "abcdefghijklmnopqrstuvwxyz"

toLowerCaseChar(c) ==
  LET K == {k \in 1..26 : At(UpperCase, k) = c}
  IN  IF K = {} THEN c ELSE At(LowerCase, Min(K))

RECURSIVE LowerFrom(_, _)
LowerFrom(s, i) ==
  IF i > Len(s) THEN ""
  ELSE toLowerCaseChar(At(s, i)) \o LowerFrom(s, i + 1)

toLowerCase(s) == LowerFrom(s, 1)

IsSpace(c) == c \in {" ", "\t", "\n", "\r", "\f"}
IsDigit(c) == c \in {"0", "1", "2", "3", "4", "5", "6", "7", "8", "9"}

\* the positions of s that hold no white space
NonSpace(s) == {i \in 1..Len(s) : ~IsSpace(At(s, i))}

trim(s) ==
  IF NonSpace(s) = {} THEN ""
  ELSE SubSeq(s, Min(NonSpace(s)), Max(NonSpace(s)))

\* s.startsWith(w, i - 1)
StartsWithAt(s, i, w) ==
  /\ i >= 1
  /\ i + Len(w) - 1 <= Len(s)
  /\ SubSeq(s, i, i + Len(w) - 1) = w

\* s.includes(w)
includes(s, w) == \E i \in 1..(Len(s) - Len(w) + 1) : StartsWithAt(s, i, w)

DigitValue(c) ==
  CASE c = "0" -> 0 [] c = "1" -> 1 [] c = "2" -> 2 [] c = "3" -> 3
    [] c = "4" -> 4 [] c = "5" -> 5 [] c = "6" -> 6 [] c = "7" -> 7
    [] c = "8" -> 8 [] c = "9" -> 9

\* the value JavaScript calls NaN (no digit string parses to it)
NaN == -1

RECURSIVE parseIntFrom(_, _, _)
parseIntFrom(s, i, acc) ==
  IF IsDigit(At(s, i))
  THEN parseIntFrom(s, i + 1, 10 * acc + DigitValue(At(s, i)))
  ELSE acc

\* parseInt(str): the leading decimal digits, NaN when there is none
parseInt(s) ==
  LET first == IF NonSpace(s) = {} THEN 1 ELSE Min(NonSpace(s))
  IN  IF IsDigit(At(s, first)) THEN parseIntFrom(s, first, 0) ELSE NaN

\* str.replace(/,/g, '') from position i on
RECURSIVE stripCommasFrom(_, _)
stripCommasFrom(s, i) ==
  IF i > Len(s) THEN ""
  ELSE (IF At(s, i) = "," THEN "" ELSE At(s, i)) \o stripCommasFrom(s, i + 1)

parseNumber(str) == Eval(parseInt, stripCommasFrom(str, 1))

(***************************************************************************)
(* KEYWORD_MAPPINGS: keyword -> canonical value, in table-definition order *)
(***************************************************************************)
KEYWORD_MAPPINGS ==
  [ makes |->
      << <<"volkswagen", "Volkswagen">>, <<"vw", "Volkswagen">>,
         <<"bmw", "BMW">>, <<"mercedes", "Mercedes">>,
         <<"benz", "Mercedes">>, <<"audi", "Audi">>,
         <<"toyota", "Toyota">>, <<"ford", "Ford">>,
         <<"porsche", "Porsche">>, <<"tesla", "Tesla">>,
         <<"lamborghini", "Lamborghini">>, <<"ferrari", "Ferrari">> >>,
    vehicleTypes |->
      << <<"suv", "suv">>, <<"sports utility vehicle", "suv">>,
         <<"off-road", "suv">>, <<"pickup", "suv">>,
         <<"saloon", "saloon">>, <<"sedan", "saloon">>,
         <<"coupe", "sports-coupe">>, <<"sports car", "sports-coupe">>,
         <<"estate", "estate">>, <<"wagon", "estate">>,
         <<"small car", "small-car">>, <<"hatchback", "small-car">>,
         <<"cabriolet", "cabriolet">>, <<"convertible", "cabriolet">>,
         <<"roadster", "cabriolet">>, <<"van", "van">>,
         <<"minibus", "van">> >>,
    conditions |->
      << <<"new", "new">>, <<"used", "used">>, <<"second hand", "used">>,
         <<"pre-registration", "pre-registration">>,
         <<"demo", "demonstration">>,
         <<"demonstration", "demonstration">>,
         <<"classic", "classic">>, <<"vintage", "classic">> >>,
    fuelTypes |->
      << <<"petrol", "petrol">>, <<"gas", "petrol">>,
         <<"gasoline", "petrol">>, <<"diesel", "diesel">>,
         <<"electric", "electric">>, <<"ev", "electric">>,
         <<"hybrid", "hybrid">>, <<"plug-in hybrid", "plug-in-hybrid">>,
         <<"phev", "plug-in-hybrid">>, <<"hydrogen", "hydrogen">>,
         <<"natural gas", "cng">>, <<"cng", "cng">>, <<"lpg", "lpg">>,
         <<"ethanol", "ethanol">> >>,
    transmissions |->
      << <<"automatic", "automatic">>, <<"auto", "automatic">>,
         <<"manual", "manual">>, <<"stick shift", "manual">>,
         <<"semi-automatic", "semi-automatic">>,
         <<"semi auto", "semi-automatic">> >>,
    driveTypes |->
      << <<"all wheel drive", "awd">>, <<"awd", "awd">>, <<"4wd", "awd">>,
         <<"front wheel drive", "fwd">>, <<"fwd", "fwd">>,
         <<"rear wheel drive", "rwd">>, <<"rwd", "rwd">> >>,
    features |->
      << <<"heated seats", "heatedSeats">>,
         <<"navigation", "navigationSystem">>,
         <<"nav", "navigationSystem">>, <<"gps", "navigationSystem">>,
         <<"sunroof", "sunroof">>, <<"panoramic roof", "sunroof">>,
         <<"apple carplay", "carPlay">>, <<"android auto", "carPlay">>,
         <<"alloy wheels", "alloyWheels">>,
         <<"led headlights", "ledHeadlights">>,
         <<"led lights", "ledHeadlights">>,
         <<"lane assist", "laneChangeAssist">>,
         <<"emergency brake", "emergencyBrakeAssist">>,
         <<"trailer coupling", "trailerCoupling">>,
         <<"tow bar", "trailerCoupling">> >>,
    colors |->
      << <<"black", "Black">>, <<"white", "White">>,
         <<"silver", "Silver">>, <<"grey", "Grey">>, <<"gray", "Grey">>,
         <<"blue", "Blue">>, <<"red", "Red">>, <<"brown", "Brown">>,
         <<"green", "Green">>, <<"orange", "Orange">>,
         <<"yellow", "Yellow">>, <<"beige", "Beige">>,
         <<"gold", "Gold">>, <<"purple", "Purple">> >> ]

\* [...new Set(found)]: first occurrences, in order
Dedupe(seq) ==
  LET first == {i \in 1..Len(seq) : \A j \in 1..(i - 1) : seq[j] # seq[i]}
      Nth(n) == CHOOSE i \in first : Cardinality({j \in first : j < i}) = n - 1
  IN  [n \in 1..Cardinality(first) |-> seq[Nth(n)]]

\* the values of the keywords the text contains, in table order
FoundValues(text, keywordMap) ==
  LET Hit(entry) == includes(text, entry[1])
      hits == SelectSeq(keywordMap, Hit)
  IN  [k \in 1..Len(hits) |-> hits[k][2]]

\* A faulty extractKeywords that returns found as it is: return found
extractKeywords_KeepsDuplicates(text, keywordMap) ==
  FoundValues(text, keywordMap)

extractKeywords(text, keywordMap) ==
  Eval(Dedupe, FoundValues(text, keywordMap))

extractFeatures(text) ==
  LET Features(found) == [f \in {found[i] : i \in 1..Len(found)} |-> TRUE]
  IN  Eval(Features, FoundValues(text, KEYWORD_MAPPINGS.features))

(***************************************************************************)
(* Regular expressions.  A pattern is the sequence of its elements:        *)
(*   Lit(words)  (?:w1|w2|...)     one of the words, tried in order        *)
(*   Opt(words)  (?:w1|w2|...)?    one of the words, or nothing            *)
(*   Ws          \s*                                                       *)
(*   Group(kind) a capturing group holding a number of that kind           *)
(* White space, the words and the digits share no character, so a greedy   *)
(* \s* or \d+ never has to give characters back; alternatives are tried in *)
(* order and the first one the rest of the pattern accepts is taken.       *)
(***************************************************************************)
Lit(words)  == [t |-> "lit", words |-> words, kind |-> ""]
Opt(words)  == [t |-> "opt", words |-> words, kind |-> ""]
Ws          == [t |-> "ws", words |-> <<>>, kind |-> ""]
Group(kind) == [t |-> "group", words |-> <<>>, kind |-> kind]

\* (?:€|euros?|euro)?
Currency == Opt(<<"€", "euros", "euro">>)

\* (?:to|and|-)
Separator == Lit(<<"to", "and", "-">>)

\* (?:km|kilometers?|miles?|mi)
Units == <<"km", "kilometers", "kilometer", "miles", "mile", "mi">>

PRICE_PATTERNS ==
  << << Lit(<<"under", "less than", "below", "max", "maximum">>),
        Ws, Currency, Ws, Group("price") >>,
     << Lit(<<"over", "more than", "above", "min", "minimum">>),
        Ws, Currency, Ws, Group("price") >>,
     << Lit(<<"between", "from">>), Ws, Currency, Ws, Group("price"),
        Ws, Separator, Ws, Currency, Ws, Group("price") >>,
     << Currency, Ws, Group("price") >> >>

YEAR_PATTERNS ==
  << << Lit(<<"from", "after", "since">>), Ws, Group("year") >>,
     << Lit(<<"before", "until">>), Ws, Group("year") >>,
     << Lit(<<"between", "from">>), Ws, Group("year"),
        Ws, Separator, Ws, Group("year") >>,
     << Group("year") >> >>

MILEAGE_PATTERNS ==
  << << Lit(<<"under", "less than", "below">>),
        Ws, Group("mileage"), Ws, Opt(Units) >>,
     << Lit(<<"over", "more than", "above">>),
        Ws, Group("mileage"), Ws, Opt(Units) >>,
     << Group("mileage"), Ws, Lit(Units) >> >>

\* a match: groups holds the captured texts, match[1], match[2], ...
NoMatch == [ok |-> FALSE, groups |-> <<>>]

\* \s*
RECURSIVE SkipSpaces(_, _)
SkipSpaces(s, i) == IF IsSpace(At(s, i)) THEN SkipSpaces(s, i + 1) ELSE i

\* \d+ (greedy); i itself when there is no digit at i
RECURSIVE SkipDigits(_, _)
SkipDigits(s, i) == IF IsDigit(At(s, i)) THEN SkipDigits(s, i + 1) ELSE i

\* (?:,\d{3})*
RECURSIVE SkipCommaGroups(_, _)
SkipCommaGroups(s, i) ==
  IF At(s, i) = "," /\ \A d \in 1..3 : IsDigit(At(s, i + d))
  THEN SkipCommaGroups(s, i + 4)
  ELSE i

\* (?:\.\d{2})?
SkipCents(s, i) ==
  IF At(s, i) = "." /\ \A d \in 1..2 : IsDigit(At(s, i + d))
  THEN i + 3
  ELSE i

\* where the number of a capturing group that starts at i ends; i itself
\* when no such number starts at i
\*   price    \d+(?:,\d{3})*(?:\.\d{2})?
\*   mileage  \d+(?:,\d{3})*
\*   year     \d{4}
GroupEnd(s, i, kind) ==
  LET Cents(e)  == IF kind = "price" THEN SkipCents(s, e) ELSE e
      Commas(e) == Eval(Cents, SkipCommaGroups(s, e))
  IN  IF kind = "year"
      THEN (IF \A d \in 0..3 : IsDigit(At(s, i + d)) THEN i + 4 ELSE i)
      ELSE Eval(Commas, SkipDigits(s, i))

\* the match of the elements k.. of the pattern against s from position i
RECURSIVE MatchFrom(_, _, _, _)
MatchFrom(s, i, pattern, k) ==
  LET el == pattern[k]
      Rest(j) == MatchFrom(s, j, pattern, k + 1)
      \* the alternatives that match here and let the rest match
      Ways == {n \in 1..Len(el.words) :
                 /\ StartsWithAt(s, i, el.words[n])
                 /\ Rest(i + Len(el.words[n])).ok}
      Captured(e) ==
        LET Prepend(rest) ==
              IF rest.ok
              THEN [ok |-> TRUE, groups |-> <<SubSeq(s, i, e - 1)>> \o rest.groups]
              ELSE NoMatch
        IN  IF e = i THEN NoMatch ELSE Eval(Prepend, Rest(e))
  IN  IF k > Len(pattern) THEN [ok |-> TRUE, groups |-> <<>>]
      ELSE CASE el.t = "ws"    -> Eval(Rest, SkipSpaces(s, i))
             [] el.t = "group" -> Eval(Captured, GroupEnd(s, i, el.kind))
             [] el.t = "lit"   -> IF Ways = {} THEN NoMatch
                                  ELSE Rest(i + Len(el.words[Min(Ways)]))
             [] el.t = "opt"   -> IF Ways = {} THEN Rest(i)
                                  ELSE Rest(i + Len(el.words[Min(Ways)]))

\* text.match(pattern): the match at the leftmost position that has one
Match(s, pattern) ==
  LET At1(i) == MatchFrom(s, i, pattern, 1)
      starts == {i \in 1..Len(s) : At1(i).ok}
  IN  IF starts = {} THEN NoMatch ELSE At1(Min(starts))

\* for (const pattern of patterns) { const match = text.match(pattern);
\*   if (match) ... }: the match of the first pattern that has one
FirstMatch(s, patterns) ==
  LET Of(p) == Match(s, patterns[p])
      hits  == {p \in 1..Len(patterns) : Of(p).ok}
  IN  IF hits = {} THEN NoMatch ELSE Of(Min(hits))

(***************************************************************************)
(* The numeric extractors.  null is the range with found = FALSE; a range  *)
(* holds the bounds that were set.                                         *)
(***************************************************************************)
Null == [found |-> FALSE, range |-> <<>>]
Range(r) == [found |-> TRUE, range |-> r]

MinOnly(v) == [b \in {"min"} |-> v]
MaxOnly(v) == [b \in {"max"} |-> v]
MinMax(lo, hi) == [b \in {"min", "max"} |-> IF b = "min" THEN lo ELSE hi]

\* text.includes(w1) || text.includes(w2) || ...
includesAny(text, words) == \E w \in words : includes(text, w)

extractPriceRange(text) ==
  LET Result(match) ==
        IF ~match.ok THEN Null
        ELSE IF includesAny(text, {"under", "less than", "below", "max"})
        THEN Range(MaxOnly(parseNumber(match.groups[1])))
        ELSE IF includesAny(text, {"over", "more than", "above", "min"})
        THEN Range(MinOnly(parseNumber(match.groups[1])))
        ELSE IF Len(match.groups) >= 2
        THEN Range(MinMax(parseNumber(match.groups[1]),
                          parseNumber(match.groups[2])))
        ELSE Range(MaxOnly(parseNumber(match.groups[1])))
  IN  Eval(Result, FirstMatch(text, PRICE_PATTERNS))

\* A faulty extractYearRange whose single year defaults to a maximum
extractYearRange_DefaultMax(text) ==
  LET Result(match) ==
        IF ~match.ok THEN Null
        ELSE IF includesAny(text, {"from", "after", "since"})
        THEN Range(MinOnly(parseInt(match.groups[1])))
        ELSE IF includesAny(text, {"before", "until"})
        THEN Range(MaxOnly(parseInt(match.groups[1])))
        ELSE IF Len(match.groups) >= 2
        THEN Range(MinMax(parseInt(match.groups[1]),
                          parseInt(match.groups[2])))
        ELSE Range(MaxOnly(parseInt(match.groups[1])))
  IN  Eval(Result, FirstMatch(text, YEAR_PATTERNS))

extractYearRange(text) ==
  LET Result(match) ==
        IF ~match.ok THEN Null
        ELSE IF includesAny(text, {"from", "after", "since"})
        THEN Range(MinOnly(parseInt(match.groups[1])))
        ELSE IF includesAny(text, {"before", "until"})
        THEN Range(MaxOnly(parseInt(match.groups[1])))
        ELSE IF Len(match.groups) >= 2
        THEN Range(MinMax(parseInt(match.groups[1]),
                          parseInt(match.groups[2])))
        ELSE Range(MinOnly(parseInt(match.groups[1])))
  IN  Eval(Result, FirstMatch(text, YEAR_PATTERNS))

extractMileage(text) ==
  LET Result(match) ==
        LET value == parseNumber(match.groups[1])
        IN  IF ~match.ok THEN Null
            ELSE IF includesAny(text, {"under", "less than", "below"})
            THEN Range(MaxOnly(value))
            ELSE IF includesAny(text, {"over", "more than", "above"})
            THEN Range(MinOnly(value))
            ELSE Range(MaxOnly(value))
  IN  Eval(Result, FirstMatch(text, MILEAGE_PATTERNS))

(***************************************************************************)
(* Objects: a key is present iff it is in the domain                       *)
(***************************************************************************)
EmptyObject == <<>>

Has(obj, key) == key \in DOMAIN obj

\* obj[key] = value
Put(obj, key, value) ==
  LET Set(o) == [k \in DOMAIN o \cup {key} |-> IF k = key THEN value ELSE o[k]]
  IN  Eval(Set, obj)

\* obj[key] || []
ListOf(obj, key) == IF Has(obj, key) THEN obj[key] ELSE <<>>

\* !value for a number (undefined is handled by the caller)
FalsyNumber(v) == v = 0 \/ v = NaN

(***************************************************************************)
(* parseVoiceCommand and its helpers                                       *)
(***************************************************************************)
\* A faulty determineIntent whose search keywords lack "show"
determineIntent_WithoutShow(text, entities) ==
  IF includesAny(text, {"find", "search", "looking for"})
  THEN "search_cars"
  ELSE IF includesAny(text, {"compare", "comparison"})
  THEN "compare_cars"
  ELSE IF includesAny(text, {"detail", "more info", "tell me about"})
  THEN "car_details"
  ELSE IF includesAny(text, {"reset", "clear", "start over"})
  THEN "reset_filters"
  ELSE IF includesAny(text, {"yes", "correct", "right"})
  THEN "confirm"
  ELSE IF includesAny(text, {"no", "wrong", "change"})
  THEN "deny"
  ELSE IF Cardinality(DOMAIN entities) > 0
  THEN "specify_filters"
  ELSE "unknown"

\* A faulty determineIntent that looks for yes/correct/right first
determineIntent_ConfirmFirst(text, entities) ==
  IF includesAny(text, {"yes", "correct", "right"})
  THEN "confirm"
  ELSE IF includesAny(text, {"find", "search", "show", "looking for"})
  THEN "search_cars"
  ELSE IF includesAny(text, {"compare", "comparison"})
  THEN "compare_cars"
  ELSE IF includesAny(text, {"detail", "more info", "tell me about"})
  THEN "car_details"
  ELSE IF includesAny(text, {"reset", "clear", "start over"})
  THEN "reset_filters"
  ELSE IF includesAny(text, {"no", "wrong", "change"})
  THEN "deny"
  ELSE IF Cardinality(DOMAIN entities) > 0
  THEN "specify_filters"
  ELSE "unknown"

determineIntent(text, entities) ==
  IF includesAny(text, {"find", "search", "show", "looking for"})
  THEN "search_cars"
  ELSE IF includesAny(text, {"compare", "comparison"})
  THEN "compare_cars"
  ELSE IF includesAny(text, {"detail", "more info", "tell me about"})
  THEN "car_details"
  ELSE IF includesAny(text, {"reset", "clear", "start over"})
  THEN "reset_filters"
  ELSE IF includesAny(text, {"yes", "correct", "right"})
  THEN "confirm"
  ELSE IF includesAny(text, {"no", "wrong", "change"})
  THEN "deny"
  ELSE IF Cardinality(DOMAIN entities) > 0
  THEN "specify_filters"
  ELSE "unknown"

\* A faulty calculateConfidence without the break: 0.2 for every phrase found
calculateConfidence_PerPhrase(entities, text) ==
  LET base    == 5 + Cardinality(DOMAIN entities) * 1
      Found(lower) == {kw \in {"find", "search", "looking for",
                               "want", "need", "show me"} :
                         includes(lower, kw)}
      boosted == base + 2 * Cardinality(Eval(Found, toLowerCase(text)))
  IN  IF boosted < 10 THEN boosted ELSE 10

\* confidence in tenths: 5 is 0.5, 10 is 1.0
calculateConfidence(entities, text) ==
  LET base    == 5 + Cardinality(DOMAIN entities) * 1
      Boost(lower) == \E kw \in {"find", "search", "looking for",
                                 "want", "need", "show me"} :
                        includes(lower, kw)
      boosted == IF Eval(Boost, toLowerCase(text)) THEN base + 2 ELSE base
  IN  IF boosted < 10 THEN boosted ELSE 10

\* const found = extractKeywords(text, table);
\* if (found.length > 0) entities[key] = found
SetList(entities, text, key, table) ==
  LET Step(found) == IF Len(found) > 0 THEN Put(entities, key, found)
                     ELSE entities
  IN  Eval(Step, extractKeywords(text, table))

\* const features = extractFeatures(text);
\* if (Object.keys(features).length > 0) entities.features = features
SetFeatures(entities, text) ==
  LET Step(features) ==
        IF Cardinality(DOMAIN features) > 0
        THEN Put(entities, "features", features) ELSE entities
  IN  Eval(Step, extractFeatures(text))

\* if (range) entities[key] = range
SetRange(entities, key, extracted) ==
  LET Step(r) == IF r.found THEN Put(entities, key, r.range) ELSE entities
  IN  Eval(Step, extracted)

\* the intent and the confidence, once the entities are known
Command(text, entities) ==
  [ intent     |-> determineIntent(text, entities),
    entities   |-> entities,
    confidence |-> calculateConfidence(entities, text) ]

\* parseVoiceCommand once text.toLowerCase().trim() is known
ParseNormalized(normalizedText) ==
  LET e1  == SetList(EmptyObject, normalizedText, "makes",
                     KEYWORD_MAPPINGS.makes)
      e2  == SetList(e1, normalizedText, "vehicleTypes",
                     KEYWORD_MAPPINGS.vehicleTypes)
      e3  == SetList(e2, normalizedText, "conditions",
                     KEYWORD_MAPPINGS.conditions)
      e4  == SetList(e3, normalizedText, "fuelTypes",
                     KEYWORD_MAPPINGS.fuelTypes)
      e5  == SetList(e4, normalizedText, "transmissions",
                     KEYWORD_MAPPINGS.transmissions)
      e6  == SetList(e5, normalizedText, "driveTypes",
                     KEYWORD_MAPPINGS.driveTypes)
      e7  == SetFeatures(e6, normalizedText)
      e8  == SetList(e7, normalizedText, "colors", KEYWORD_MAPPINGS.colors)
      e9  == SetRange(e8, "priceRange", extractPriceRange(normalizedText))
      e10 == SetRange(e9, "yearRange", extractYearRange(normalizedText))
      e11 == SetRange(e10, "mileage", extractMileage(normalizedText))
      Intent(entities) == Command(normalizedText, entities)
  IN  Eval(Intent, e11)

parseVoiceCommand(text) ==
  LET normalizedText == Eval(trim, toLowerCase(text))
  IN  Eval(ParseNormalized, normalizedText)

(***************************************************************************)
(* applyEntitiesToFilters                                                  *)
(***************************************************************************)
\* A faulty ApplyList that removes duplicates while merging:
\* filters[field] = [...new Set([...(filters[field] || []), ...entities[key]])]
ApplyList_Dedupes(filters, entities, key, field) ==
  LET Step(f) == IF Has(entities, key)
                 THEN Put(f, field, Dedupe(ListOf(f, field) \o entities[key]))
                 ELSE f
  IN  Eval(Step, filters)

\* if (entities[key]) filters[field] = [...(filters[field] || []), ...entities[key]]
ApplyList(filters, entities, key, field) ==
  LET Step(f) == IF Has(entities, key)
                 THEN Put(f, field, ListOf(f, field) \o entities[key])
                 ELSE f
  IN  Eval(Step, filters)

\* A faulty ApplyFeatures that flips the stored flag instead of storing the
\* extracted value: filters[key] = !filters[key]
ApplyFeatures_Toggles(filters, entities) ==
  LET Step(f) ==
        IF Has(entities, "features")
        THEN [k \in DOMAIN f \cup DOMAIN entities.features |->
                IF k \in DOMAIN entities.features
                THEN (IF k \in DOMAIN f THEN ~f[k] ELSE TRUE) ELSE f[k]]
        ELSE f
  IN  Eval(Step, filters)

\* Object.entries(entities.features).forEach(([key, value]) => filters[key] = value)
ApplyFeatures(filters, entities) ==
  LET Step(f) ==
        IF Has(entities, "features")
        THEN [k \in DOMAIN f \cup DOMAIN entities.features |->
                IF k \in DOMAIN entities.features
                THEN entities.features[k] ELSE f[k]]
        ELSE f
  IN  Eval(Step, filters)

\* A faulty ApplyRange that tests the bound for truthiness, if (range.min),
\* instead of comparing it with undefined
ApplyRange_Truthy(filters, entities, key, minField, maxField) ==
  LET Step(f) ==
        IF Has(entities, key)
        THEN LET range == entities[key]
                 f1 == IF Has(range, "min") /\ ~FalsyNumber(range.min)
                       THEN Put(f, minField, range.min) ELSE f
             IN  IF Has(range, "max") /\ ~FalsyNumber(range.max)
                 THEN Put(f1, maxField, range.max) ELSE f1
        ELSE f
  IN  Eval(Step, filters)

\* if (range.min !== undefined) filters[minField] = range.min, and so for max
ApplyRange(filters, entities, key, minField, maxField) ==
  LET Step(f) ==
        IF Has(entities, key)
        THEN LET range == entities[key]
                 f1 == IF Has(range, "min")
                       THEN Put(f, minField, range.min) ELSE f
             IN  IF Has(range, "max") THEN Put(f1, maxField, range.max) ELSE f1
        ELSE f
  IN  Eval(Step, filters)

applyEntitiesToFilters(entities, currentFilters) ==
  LET f0  == currentFilters
      f1  == ApplyList(f0, entities, "makes", "makes")
      f2  == ApplyList(f1, entities, "vehicleTypes", "vehicleTypes")
      f3  == ApplyList(f2, entities, "conditions", "conditions")
      f4  == ApplyList(f3, entities, "fuelTypes", "fuelTypes")
      f5  == ApplyList(f4, entities, "transmissions", "transmissions")
      f6  == ApplyList(f5, entities, "driveTypes", "driveTypes")
      f7  == ApplyList(f6, entities, "colors", "exteriorColors")
      f8  == ApplyFeatures(f7, entities)
      f9  == ApplyRange(f8, entities, "priceRange", "priceMin", "priceMax")
      f10 == ApplyRange(f9, entities, "yearRange", "yearMin", "yearMax")
  IN  ApplyRange(f10, entities, "mileage", "mileageMin", "mileageMax")

(***************************************************************************)
(* The assistant's texts                                                   *)
(***************************************************************************)
welcomeMessage ==
  "Welcome to RedLine Motors voice assistant! I can help you find the perfect car. Tell me what you're looking for - for example, 'I need a used SUV under thirty thousand euros with automatic transmission.'"

confirmationResponse ==
  "Perfect! Let me search for cars matching your criteria."

denialResponse ==
  "No problem! Please tell me what you'd like to change or search for instead."

resetResponse ==
  "All filters cleared! Let's start fresh. What kind of car are you looking for?"

unknownResponse ==
  "I didn't quite understand that. Could you try rephrasing? For example, you could say 'I want a BMW SUV under 50,000 euros' or 'Show me electric cars with heated seats.'"

AskMake ==
  "What car brand would you prefer? For example, BMW, Mercedes, Audi, or Volkswagen?"

AskBudget ==
  "What's your budget range? You can say something like 'under 30,000 euros' or 'between 20,000 and 50,000 euros'."

AskVehicleType ==
  "What type of vehicle interests you? For example, SUV, sedan, coupe, or estate?"

AskTransmission == "Do you prefer automatic or manual transmission?"

AskAnythingElse ==
  "Is there anything else specific you're looking for? Or should I search for cars with your current criteria?"

BeMoreSpecific ==
  "I understand you're looking for a car. Could you be more specific about what you want?"

\* array.join(sep)
RECURSIVE join(_, _)
join(seq, sep) ==
  IF seq = <<>> THEN ""
  ELSE IF Len(seq) = 1 THEN seq[1]
  ELSE seq[1] \o sep \o join(Tail(seq), sep)

RECURSIVE Digits(_)
Digits(n) ==
  IF n < 10 THEN At("0123456789", n + 1)
  ELSE Digits(n \div 10) \o At("0123456789", (n % 10) + 1)

\* groups of three digits, from the right
RECURSIVE Grouped(_)
Grouped(d) ==
  IF Len(d) <= 3 THEN d
  ELSE Grouped(SubSeq(d, 1, Len(d) - 3)) \o "," \o SubSeq(d, Len(d) - 2, Len(d))

\* Number.prototype.toLocaleString() in the en-US locale
toLocaleString(n) == IF n = NaN THEN "NaN" ELSE Grouped(Digits(n))

\* Object.keys(entities.features): the order the feature table found them in
FeatureKeys(features) ==
  LET order == Dedupe([k \in 1..Len(KEYWORD_MAPPINGS.features) |->
                         KEYWORD_MAPPINGS.features[k][2]])
      IsSet(f) == f \in DOMAIN features
  IN  SelectSeq(order, IsSet)

featureMap ==
  [ heatedSeats |-> "heated seats", navigationSystem |-> "navigation system",
    sunroof |-> "sunroof", carPlay |-> "Apple CarPlay",
    alloyWheels |-> "alloy wheels", ledHeadlights |-> "LED headlights" ]

generateConfirmationText(entities, originalText) ==
  LET ListPart(key, suffix) ==
        IF Has(entities, key)
        THEN <<join(entities[key], " or ") \o suffix>> ELSE <<>>
      Bound(b, prefix) ==
        IF /\ Has(entities, "priceRange") /\ Has(entities.priceRange, b)
           /\ ~FalsyNumber(entities.priceRange[b])
        THEN <<prefix \o toLocaleString(entities.priceRange[b])>> ELSE <<>>
      FeatureName(key) ==
        IF key \in DOMAIN featureMap THEN featureMap[key] ELSE key
      FeaturePart ==
        IF Has(entities, "features")
        THEN LET keys == FeatureKeys(entities.features)
             IN  <<"with " \o join([i \in 1..Len(keys) |->
                                      FeatureName(keys[i])], ", ")>>
        ELSE <<>>
      confirmations ==
        ListPart("makes", " vehicles") \o ListPart("vehicleTypes", " body type")
          \o ListPart("conditions", " condition")
          \o ListPart("fuelTypes", " fuel type")
          \o ListPart("transmissions", " transmission")
          \o Bound("max", "under €") \o Bound("min", "over €")
          \o FeaturePart
  IN  IF Len(confirmations) > 0
      THEN "Got it! Looking for " \o join(confirmations, ", ") \o "."
      ELSE BeMoreSpecific

generateNextQuestion(filters) ==
  IF ~Has(filters, "makes") \/ Len(filters.makes) = 0
  THEN AskMake
  ELSE IF /\ (~Has(filters, "priceMax") \/ FalsyNumber(filters.priceMax))
          /\ (~Has(filters, "priceMin") \/ FalsyNumber(filters.priceMin))
  THEN AskBudget
  ELSE IF ~Has(filters, "vehicleTypes") \/ Len(filters.vehicleTypes) = 0
  THEN AskVehicleType
  ELSE IF ~Has(filters, "transmissions") \/ Len(filters.transmissions) = 0
  THEN AskTransmission
  ELSE AskAnythingElse

(***************************************************************************)
(* The dialogue controller: component VoiceSearchAssistant, mounted once   *)
(* by the Inventory page, which owns showVoiceSearch and filters.          *)
(***************************************************************************)
VARIABLES
  showVoiceSearch,    \* Inventory: the isOpen prop
  filters,            \* Inventory: the filter set the car list is queried with
  filtersUpdateCalls, \* number of onFiltersUpdate calls so far
  searchCalls,        \* number of onSearch calls so far
  isListening,        \* useState
  isSpeaking,         \* useState
  transcript,         \* useState: the live transcript shown
  toastTitle,         \* the title of the toast raised last, "" if none
  conversation,       \* useState: the messages shown
  conversationState,  \* useState: currentStep and collectedFilters
  recognizing,        \* the recogniser behind recognitionRef is capturing
  endPending,         \* the recogniser stopped capturing (stop() or an error)
                      \* and has not delivered its end event yet
  synthPending,       \* utterances speechSynthesis still has to finish
  questionTimers,     \* pending setTimeout(..., 2000), oldest first
  searchTimers,       \* pending setTimeout(..., 1500)
  turns,              \* final transcripts handled so far
  lastCommand,        \* the command of the latest turn
  confirmed,          \* a confirm turn was handled since the dialog last opened
  rcEntities,         \* reconcile harness: the entities argument
  rcFilters,          \* reconcile harness: the currentFilters argument
  rcResult,           \* reconcile harness: results of the calls made
  rcHeap,             \* reconcile harness: the objects before and after the
                      \* latest call
  pvText,             \* parse harness: the text argument
  pvCommand,          \* parse harness: the VoiceCommand returned
  rlStrategy,         \* rate limiter: options.strategy
  rlNow,              \* rate limiter: Date.now()
  rlStorage,          \* rate limiter: the Map of the MemoryStorageAdapter
  rlBuckets,          \* rate limiter: the bucket state objects, by the call
                      \* that created them
  rlCalls,            \* rate limiter: the calls of the wrapped tool, each
                      \* with its position and its local variables
  rlQueue,            \* rate limiter: the calls waiting to resume from an
                      \* await, in the order they will resume
  rlInvoked,          \* rate limiter: the time of each invocation of the
                      \* wrapped function, in order
  rtOptions,          \* withRetry: opts.maxRetries and opts.retryOnRateLimit
  rtPc,               \* withRetry: where the call stands
  rtAttempt,          \* withRetry: the loop variable attempt
  rtOutcomes,         \* withRetry: how each invocation of fn settled, in order
  rtSettled,          \* withRetry: what the call returned or threw
  isActive,           \* ConvAIProvider: useState
  providerError,      \* ConvAIProvider: useState error, as its message
  reconnectAttempts,  \* ConvAIProvider: reconnectAttempts.current
  reconnectTimeoutRef,\* ConvAIProvider: the timer id held, 0 for null
  timers,             \* ConvAIProvider: the setTimeout timers pending
  timerSeq,           \* ConvAIProvider: the id of the timer set last
  starting,           \* ConvAIProvider: startAssistant calls in flight
  stopping,           \* ConvAIProvider: stopAssistant calls in flight
  userStarts,         \* ConvAIProvider: startAssistant calls by the user
  userStops,          \* ConvAIProvider: stopAssistant calls by the user
  stopped             \* ConvAIProvider: a stopAssistant call has ended the
                      \* session and cleared the timer, and the user has not
                      \* called startAssistant since

ctlVars ==
  << showVoiceSearch, filters, filtersUpdateCalls, searchCalls, isListening,
     isSpeaking, transcript, toastTitle, conversation, conversationState, recognizing, endPending,
     synthPending,
     questionTimers, searchTimers, turns, lastCommand, confirmed >>

rcVars == << rcEntities, rcFilters, rcResult, rcHeap >>

parseVars == << pvText, pvCommand >>

rlVars ==
  << rlStrategy, rlNow, rlStorage, rlBuckets, rlCalls, rlQueue, rlInvoked >>

rtVars == << rtOptions, rtPc, rtAttempt, rtOutcomes, rtSettled >>

cvVars ==
  << isActive, providerError, reconnectAttempts, reconnectTimeoutRef, timers,
     timerSeq, starting, stopping, userStarts, userStops, stopped >>

libVars == << rlVars, rtVars, cvVars >>

vars == << ctlVars, rcVars, parseVars, libVars >>

\* what the recogniser may hear
Utterances ==
  { "I need a used BMW SUV under 40000 euros with heated seats",
    "automatic",
    "yes",
    "start over",
    "no",
    "hello",
    "compare them",
    "more info",
    "bmw under 0",
    "bmw" }

\* const command = parseVoiceCommand(text), for each text that can be heard
Commands == [text \in Utterances |-> parseVoiceCommand(text)]

NoCommand == [intent |-> "", entities |-> EmptyObject, confidence |-> 0]

initialConversationState ==
  [currentStep |-> "greeting", collectedFilters |-> EmptyObject]

initialFilters ==
  [ priceMin |-> 0, priceMax |-> 500000, makes |-> <<>>,
    vehicleTypes |-> <<>>, conditions |-> <<>>, fuelTypes |-> <<>>,
    transmissions |-> <<>> ]

\* recognition.onresult is assigned once, by the mount effect (deps []), so
\* the handleVoiceInput it calls, and every callback reached from it, is the
\* one created by the first render and reads that render's state values.
\* startConversation (deps []) is the first render's callback as well.
MountRender ==
  [isSpeaking |-> FALSE, conversationState |-> initialConversationState]

\* the component and page state the handlers read and write
Component ==
  [ showVoiceSearch    |-> showVoiceSearch,
    filters            |-> filters,
    filtersUpdateCalls |-> filtersUpdateCalls,
    searchCalls        |-> searchCalls,
    isListening        |-> isListening,
    isSpeaking         |-> isSpeaking,
    transcript         |-> transcript,
    toastTitle         |-> toastTitle,
    conversation       |-> conversation,
    conversationState  |-> conversationState,
    recognizing        |-> recognizing,
    endPending         |-> endPending,
    synthPending       |-> synthPending,
    questionTimers     |-> questionTimers,
    searchTimers       |-> searchTimers ]

\* commit the state a handler produced
Commit(c) ==
  /\ showVoiceSearch'    = c.showVoiceSearch
  /\ filters'            = c.filters
  /\ filtersUpdateCalls' = c.filtersUpdateCalls
  /\ searchCalls'        = c.searchCalls
  /\ isListening'        = c.isListening
  /\ isSpeaking'         = c.isSpeaking
  /\ transcript'         = c.transcript
  /\ toastTitle'         = c.toastTitle
  /\ conversation'       = c.conversation
  /\ conversationState'  = c.conversationState
  /\ recognizing'        = c.recognizing
  /\ endPending'         = c.endPending
  /\ synthPending'       = c.synthPending
  /\ questionTimers'     = c.questionTimers
  /\ searchTimers'       = c.searchTimers

\* Inventory.handleFiltersChange, the onFiltersUpdate prop
onFiltersUpdate(c, newFilters) ==
  [c EXCEPT !.filters = newFilters, !.filtersUpdateCalls = @ + 1]

\* toast({title, ...})
toast(c, title) == [c EXCEPT !.toastTitle = title]

\* the onSearch prop (a toast)
onSearch(c) == toast([c EXCEPT !.searchCalls = @ + 1], "Voice Search Complete")

\* the onClose prop
onClose(c) == [c EXCEPT !.showVoiceSearch = FALSE]

addMessage(c, type, text) ==
  [c EXCEPT !.conversation = Append(@, [type |-> type, text |-> text])]

\* speak as the callbacks of the first render call it
speak(c, text) ==
  IF ~MountRender.isSpeaking
  THEN [c EXCEPT !.isSpeaking = TRUE, !.synthPending = @ + 1]
  ELSE c

startConversation(c) ==
  LET c1 == addMessage(c, "assistant", welcomeMessage)
      c2 == speak(c1, welcomeMessage)
  IN  [c2 EXCEPT !.conversationState =
         [currentStep |-> "collecting_preferences",
          collectedFilters |-> EmptyObject]]

\* A faulty handleFilterSpecification that hands the consumer the entities
\* merged into the currentFilters prop: onFiltersUpdate(
\* applyEntitiesToFilters(entities, currentFilters))
handleFilterSpecification_HandsMergedProp(c, entities, originalText) ==
  LET updatedFilters ==
        applyEntitiesToFilters(entities,
                               MountRender.conversationState.collectedFilters)
      c1 == [c EXCEPT !.conversationState.collectedFilters = updatedFilters]
      c2 == onFiltersUpdate(c1, applyEntitiesToFilters(entities, c.filters))
      confirmationText == generateConfirmationText(entities, originalText)
      c3 == addMessage(c2, "assistant", confirmationText)
      c4 == speak(c3, confirmationText)
  IN  [c4 EXCEPT !.questionTimers = Append(@, updatedFilters)]

handleFilterSpecification(c, entities, originalText) ==
  LET updatedFilters ==
        applyEntitiesToFilters(entities,
                               MountRender.conversationState.collectedFilters)
      c1 == [c EXCEPT !.conversationState.collectedFilters = updatedFilters]
      c2 == onFiltersUpdate(c1, updatedFilters)
      confirmationText == generateConfirmationText(entities, originalText)
      c3 == addMessage(c2, "assistant", confirmationText)
      c4 == speak(c3, confirmationText)
  IN  [c4 EXCEPT !.questionTimers = Append(@, updatedFilters)]

handleConfirmation(c) ==
  LET c1 == addMessage(c, "assistant", confirmationResponse)
      c2 == speak(c1, confirmationResponse)
  IN  [c2 EXCEPT !.searchTimers = @ + 1]

\* A faulty handleDenial that also drops what was collected and publishes it
handleDenial_ClearsFilters(c) ==
  LET c1 == [c EXCEPT !.conversationState.collectedFilters = EmptyObject]
      c2 == onFiltersUpdate(c1, EmptyObject)
  IN  speak(addMessage(c2, "assistant", denialResponse), denialResponse)

handleDenial(c) ==
  speak(addMessage(c, "assistant", denialResponse), denialResponse)

\* A faulty handleReset that publishes the empty filter set but forgets
\* setConversationState
handleReset_KeepsCollected(c) ==
  LET c2 == onFiltersUpdate(c, EmptyObject)
      c3 == addMessage(c2, "assistant", resetResponse)
  IN  speak(c3, resetResponse)

handleReset(c) ==
  LET c1 == [c EXCEPT !.conversationState =
               [currentStep |-> "collecting_preferences",
                collectedFilters |-> EmptyObject]]
      c2 == onFiltersUpdate(c1, EmptyObject)
      c3 == addMessage(c2, "assistant", resetResponse)
  IN  speak(c3, resetResponse)

handleUnknownCommand(c, text) ==
  speak(addMessage(c, "assistant", unknownResponse), unknownResponse)

processVoiceCommand(c, command, originalText) ==
  CASE command.intent \in {"search_cars", "specify_filters"} ->
         handleFilterSpecification(c, command.entities, originalText)
    [] command.intent = "confirm" -> handleConfirmation(c)
    [] command.intent = "deny" -> handleDenial(c)
    [] command.intent = "reset_filters" -> handleReset(c)
    [] OTHER -> handleUnknownCommand(c, originalText)

handleVoiceInput(c, text) ==
  [processVoiceCommand(addMessage(c, "user", text), Commands[text], text)
     EXCEPT !.transcript = ""]

\* A faulty onresult that hands every final transcript to handleVoiceInput,
\* the empty one too (parseVoiceCommand("") has the intent unknown)
onresult_HandlesEmpty(c, finalTranscript, interimTranscript) ==
  IF finalTranscript # ""
  THEN handleVoiceInput(c, finalTranscript)
  ELSE [handleUnknownCommand(addMessage(c, "user", ""), "")
          EXCEPT !.transcript = ""]

\* recognition.onresult, for the final and interim text of the event
onresult(c, finalTranscript, interimTranscript) ==
  IF finalTranscript # ""
  THEN handleVoiceInput([c EXCEPT !.transcript = finalTranscript],
                        finalTranscript)
  ELSE [c EXCEPT !.transcript = interimTranscript]

\* what an event without a final transcript may carry
InterimTranscripts == {"", "I need"}

(***************************************************************************)
(* Events                                                                  *)
(***************************************************************************)
\* Inventory's "Voice Search" button, then the effect on [isOpen]
OpenVoiceSearch ==
  /\ ~showVoiceSearch
  /\ LET c1 == [Component EXCEPT !.showVoiceSearch = TRUE]
     IN  Commit(IF Len(conversation) = 0 THEN startConversation(c1) ELSE c1)
  /\ confirmed' = FALSE
  /\ UNCHANGED << turns, lastCommand, rcVars, parseVars, libVars >>

\* the dialog's X button
CloseVoiceSearch ==
  /\ showVoiceSearch
  /\ Commit(onClose(Component))
  /\ UNCHANGED << turns, lastCommand, confirmed, rcVars, parseVars, libVars >>

\* recognitionRef.current.start(): a recogniser that was started and has
\* not delivered its end event throws InvalidStateError and ignores the call
recognitionStart(c) ==
  IF c.recognizing \/ c.endPending THEN c ELSE [c EXCEPT !.recognizing = TRUE]

\* recognitionRef.current.stop(): capturing stops, the end event comes later
recognitionStop(c) ==
  IF c.recognizing
  THEN [c EXCEPT !.recognizing = FALSE, !.endPending = TRUE]
  ELSE c

\* A faulty stopListening that toggles the flag:
\* recognitionRef.current.stop(); setIsListening(!isListening)
stopListeningCallback_Toggles(c) ==
  [recognitionStop(c) EXCEPT !.isListening = ~@]

\* the stopListening callback
stopListeningCallback(c) ==
  IF c.isListening THEN [recognitionStop(c) EXCEPT !.isListening = FALSE]
  ELSE c

\* the stopSpeaking callback: synthRef.current.cancel() drops the utterance
\* being spoken and the queued ones
stopSpeakingCallback(c) ==
  [c EXCEPT !.isSpeaking = FALSE, !.synthPending = 0]

\* the "Start Listening" button (rendered while open, disabled while speaking)
startListening ==
  /\ showVoiceSearch /\ ~isSpeaking
  /\ ~isListening
  /\ Commit(recognitionStart([Component EXCEPT !.transcript = "",
                                               !.isListening = TRUE]))
  /\ UNCHANGED << turns, lastCommand, confirmed, rcVars, parseVars, libVars >>

\* the "Stop Listening" button
stopListening ==
  /\ showVoiceSearch /\ ~isSpeaking
  /\ isListening
  /\ Commit(stopListeningCallback(Component))
  /\ UNCHANGED << turns, lastCommand, confirmed, rcVars, parseVars, libVars >>

\* recognition.onresult, for an event with a final transcript (a turn) and
\* for one with interim text or nothing
OnResult ==
  /\ recognizing
  /\ \E final \in Utterances \cup {""} :
       /\ final # "" => turns < MaxTurns
       /\ \E interim \in (IF final = "" THEN InterimTranscripts ELSE {""}) :
            Commit(onresult(Component, final, interim))
       /\ IF final = ""
          THEN UNCHANGED << turns, lastCommand, confirmed >>
          ELSE /\ turns' = turns + 1
               /\ lastCommand' = Commands[final]
               /\ confirmed' = (confirmed \/ Commands[final].intent = "confirm")
  /\ UNCHANGED << rcVars, parseVars, libVars >>

\* recognition.onerror (the recogniser delivers its end event after it)
OnError ==
  /\ recognizing
  /\ Commit(toast([Component EXCEPT !.isListening = FALSE,
                                    !.recognizing = FALSE,
                                    !.endPending = TRUE],
                  "Voice Recognition Error"))
  /\ UNCHANGED << turns, lastCommand, confirmed, rcVars, parseVars, libVars >>

\* recognition.onend
OnEnd ==
  /\ recognizing \/ endPending
  /\ Commit([Component EXCEPT !.isListening = FALSE, !.recognizing = FALSE,
                              !.endPending = FALSE])
  /\ UNCHANGED << turns, lastCommand, confirmed, rcVars, parseVars, libVars >>

\* utterance.onend / utterance.onerror
UtteranceEnd ==
  /\ synthPending > 0
  /\ Commit([Component EXCEPT !.isSpeaking = FALSE, !.synthPending = @ - 1])
  /\ UNCHANGED << turns, lastCommand, confirmed, rcVars, parseVars, libVars >>

\* the "Stop Speaking" button (rendered while open and speaking)
stopSpeaking ==
  /\ showVoiceSearch /\ isSpeaking
  /\ Commit(stopSpeakingCallback(Component))
  /\ UNCHANGED << turns, lastCommand, confirmed, rcVars, parseVars, libVars >>

\* the 2000 ms timer of handleFilterSpecification
QuestionTimer ==
  /\ questionTimers # <<>>
  /\ LET updatedFilters == Head(questionTimers)
         nextQuestion   == generateNextQuestion(updatedFilters)
         c1 == [Component EXCEPT !.questionTimers = Tail(@)]
         c2 == addMessage(c1, "assistant", nextQuestion)
     IN  Commit(speak(c2, nextQuestion))
  /\ UNCHANGED << turns, lastCommand, confirmed, rcVars, parseVars, libVars >>

\* the 1500 ms timer of handleConfirmation
SearchTimer ==
  /\ searchTimers > 0
  /\ LET c1 == [Component EXCEPT !.searchTimers = @ - 1]
     IN  Commit(toast(onClose(onSearch(c1)), "Search Complete"))
  /\ UNCHANGED << turns, lastCommand, confirmed, rcVars, parseVars, libVars >>

InitController ==
  /\ showVoiceSearch = FALSE
  /\ filters = initialFilters
  /\ filtersUpdateCalls = 0
  /\ searchCalls = 0
  /\ isListening = FALSE
  /\ isSpeaking = FALSE
  /\ transcript = ""
  /\ toastTitle = ""
  /\ conversation = <<>>
  /\ conversationState = initialConversationState
  /\ recognizing = FALSE
  /\ endPending = FALSE
  /\ synthPending = 0
  /\ questionTimers = <<>>
  /\ searchTimers = 0
  /\ turns = 0
  /\ lastCommand = NoCommand
  /\ confirmed = FALSE

(***************************************************************************)
(* The rate limiter: a tool wrapped by createRateLimiter over a            *)
(* MemoryStorageAdapter.  Every call of the wrapped tool is an async       *)
(* function: it runs until its next await, and the calls waiting at an     *)
(* await resume in the order they reached it.  Numbers of tokens are kept  *)
(* in units of 1/OptWindowMs of a token, so that the refill                *)
(* (timeElapsed / windowMs) * maxCalls is exact.                           *)
(***************************************************************************)
\* options.maxCalls
OptMaxCalls == 2

\* options.windowMs
OptWindowMs == 4

\* the calls of the wrapped tool that are made
MaxToolCalls == 3

\* the clock stops here
MaxClock == 5

ToolCalls == 1 .. MaxToolCalls

Strategies == {"fixed-window", "sliding-window", "token-bucket"}

\* one whole token
Token == OptWindowMs

\* `${key}:${Math.floor(now / windowMs)}`
WindowKey(now) == << "window", now \div OptWindowMs >>

\* `${key}:${Math.floor(now / windowMs) - 1}`
PrevWindowKey(now) == << "window", (now \div OptWindowMs) - 1 >>

\* `${key}:bucket`
BucketKey == << "bucket", 0 >>

\* MemoryStorageAdapter.get: the value, whether there was one, and the Map
\* after the expired item was deleted; a missing value reads as 0 (|| 0)
storageGet(storage, key, now) ==
  IF key \notin DOMAIN storage
  THEN [found |-> FALSE, value |-> 0, storage |-> storage]
  ELSE IF storage[key].expires /\ storage[key].expiry < now
       THEN [found |-> FALSE, value |-> 0,
             storage |-> [k \in DOMAIN storage \ {key} |-> storage[k]]]
       ELSE [found |-> TRUE, value |-> storage[key].value,
             storage |-> storage]

\* MemoryStorageAdapter.set: ttlMs is 0 where the code passes none
storageSet(storage, key, value, ttlMs, now) ==
  [k \in DOMAIN storage \cup {key} |->
     IF k = key
     THEN [value |-> value, expires |-> ttlMs # 0, expiry |-> now + ttlMs]
     ELSE storage[k]]

\* a call that was not made yet
NoToolCall(id) ==
  [id |-> id, pc |-> "idle", now |-> 0, currentCount |-> 0, prevCount |-> 0,
   count |-> 0, found |-> FALSE, bucket |-> 0, allowed |-> FALSE]

\* the positions of a call that has reached its first await and not resumed
FirstAwait == {"fw_increment", "sw_prev", "tb_refill"}

\* fixedWindowStrategy, from where the call stands to its next await:
\*   idle         - now, windowKey; storage.increment reads the count
\*   fw_increment - increment stores the count plus one and returns it
\*   fw_expiry    - the count is stored again with its expiry, and compared
fixedWindowStrategy(s, clock) ==
  LET call == s.call
      windowKey == WindowKey(call.now)
  IN  CASE call.pc = "idle" ->
             LET read == storageGet(s.storage, WindowKey(clock), clock)
             IN  [s EXCEPT !.storage = read.storage,
                           !.call.now = clock,
                           !.call.count = read.value,
                           !.call.pc = "fw_increment"]
        [] call.pc = "fw_increment" ->
             [s EXCEPT !.storage =
                          storageSet(@, windowKey, call.count + 1, 0, clock),
                       !.call.count = @ + 1,
                       !.call.pc = "fw_expiry"]
        [] call.pc = "fw_expiry" ->
             [s EXCEPT !.storage =
                          storageSet(@, windowKey, call.count, OptWindowMs,
                                     clock),
                       !.call.allowed = ~(call.count > OptMaxCalls),
                       !.call.pc = "result"]

\* slidingWindowStrategy, from where the call stands to its next await:
\*   idle           - now, the keys; the current count is read
\*   sw_prev        - the previous count is read
\*   sw_check       - the weighted count is compared; storage.increment
\*                    reads the current count
\*   sw_increment   - increment stores that count plus one
\*   sw_expiry      - currentCount + 1 is stored with its expiry
\*   sw_expiry_prev - prevCount is stored with its expiry
\* weightedCount >= maxCalls is compared after multiplying by windowMs.
slidingWindowStrategy(s, clock) ==
  LET call == s.call
      currentWindowKey == WindowKey(call.now)
      prevWindowKey == PrevWindowKey(call.now)
      weightedCount ==
        call.prevCount * (OptWindowMs - (call.now % OptWindowMs))
          + call.currentCount * OptWindowMs
  IN  CASE call.pc = "idle" ->
             LET read == storageGet(s.storage, WindowKey(clock), clock)
             IN  [s EXCEPT !.storage = read.storage,
                           !.call.now = clock,
                           !.call.currentCount = read.value,
                           !.call.pc = "sw_prev"]
        [] call.pc = "sw_prev" ->
             LET read == storageGet(s.storage, prevWindowKey, clock)
             IN  [s EXCEPT !.storage = read.storage,
                           !.call.prevCount = read.value,
                           !.call.pc = "sw_check"]
        [] call.pc = "sw_check" ->
             IF weightedCount >= OptMaxCalls * OptWindowMs
             THEN [s EXCEPT !.call.allowed = FALSE, !.call.pc = "result"]
             ELSE LET read == storageGet(s.storage, currentWindowKey, clock)
                  IN  [s EXCEPT !.storage = read.storage,
                                !.call.count = read.value,
                                !.call.pc = "sw_increment"]
        [] call.pc = "sw_increment" ->
             [s EXCEPT !.storage =
                          storageSet(@, currentWindowKey, call.count + 1, 0,
                                     clock),
                       !.call.pc = "sw_expiry"]
        [] call.pc = "sw_expiry" ->
             [s EXCEPT !.storage =
                          storageSet(@, currentWindowKey,
                                     call.currentCount + 1, OptWindowMs * 2,
                                     clock),
                       !.call.pc = "sw_expiry_prev"]
        [] call.pc = "sw_expiry_prev" ->
             [s EXCEPT !.storage =
                          storageSet(@, prevWindowKey, call.prevCount,
                                     OptWindowMs, clock),
                       !.call.allowed = TRUE,
                       !.call.pc = "result"]

\* the tokens of a bucket after the refill for a call made at now
Refilled(bucketState, now) ==
  LET timeElapsed == now - bucketState.lastRefill
      tokensToAdd == timeElapsed * OptMaxCalls
  IN  Min({OptMaxCalls * Token, bucketState.tokens + tokensToAdd})

\* tokenBucketStrategy, from where the call stands to its next await:
\*   idle      - now, bucketKey; the bucket state is read
\*   tb_refill - the state read, or a new full one, is refilled, a token is
\*               taken if there is one, and the state is stored
\* The Map holds the state object itself, so the state a call has read is
\* the one later calls read too; a new state is the call's own object.
tokenBucketStrategy(s, clock) ==
  LET call == s.call
  IN  CASE call.pc = "idle" ->
             LET read == storageGet(s.storage, BucketKey, clock)
             IN  [s EXCEPT !.storage = read.storage,
                           !.call.now = clock,
                           !.call.found = read.found,
                           !.call.bucket = read.value,
                           !.call.pc = "tb_refill"]
        [] call.pc = "tb_refill" ->
             LET ref == IF call.found THEN call.bucket ELSE call.id
                 bucketState ==
                   IF call.found THEN s.buckets[ref]
                   ELSE [tokens |-> OptMaxCalls * Token,
                         lastRefill |-> call.now]
                 tokens == Refilled(bucketState, call.now)
             IN  [s EXCEPT !.buckets[ref] =
                              [tokens |-> IF tokens < Token THEN tokens
                                          ELSE tokens - Token,
                               lastRefill |-> call.now],
                           !.storage =
                              storageSet(@, BucketKey, ref, OptWindowMs * 2,
                                         clock),
                           !.call.bucket = ref,
                           !.call.allowed = ~(tokens < Token),
                           !.call.pc = "result"]

\* the wrapped function of createRateLimiter: the strategy chosen by
\* options.strategy, then fn or the RateLimitExceededError
rateLimitedFn(strategy, s, clock) ==
  IF s.call.pc = "result"
  THEN [s EXCEPT !.call.pc = IF s.call.allowed THEN "invoked" ELSE "rejected"]
  ELSE CASE strategy = "fixed-window" -> fixedWindowStrategy(s, clock)
         [] strategy = "sliding-window" -> slidingWindowStrategy(s, clock)
         [] strategy = "token-bucket" -> tokenBucketStrategy(s, clock)

\* the call runs to its next await, or to its end
RunToolCall(id) ==
  LET s == rateLimitedFn(rlStrategy,
                         [storage |-> rlStorage, buckets |-> rlBuckets,
                          call |-> rlCalls[id]],
                         rlNow)
      finished == s.call.pc \in {"invoked", "rejected"}
      waiting == SelectSeq(rlQueue, LAMBDA other : other # id)
  IN  /\ rlStorage' = s.storage
      /\ rlBuckets' = s.buckets
      /\ rlCalls' = [rlCalls EXCEPT ![id] = s.call]
      /\ rlQueue' = IF finished THEN waiting ELSE Append(waiting, id)
      /\ rlInvoked' = IF s.call.pc = "invoked"
                      THEN Append(rlInvoked, rlNow) ELSE rlInvoked
      /\ UNCHANGED << rlStrategy, rlNow >>

\* the tool is called; calls made one after the other before any of the
\* waiting ones has resumed all reach their first await
CallTool ==
  /\ \A other \in ToolCalls : rlCalls[other].pc \in FirstAwait \cup
                                {"idle", "invoked", "rejected"}
  /\ \E id \in ToolCalls :
       /\ rlCalls[id].pc = "idle"
       /\ \A earlier \in 1 .. id - 1 : rlCalls[earlier].pc # "idle"
       /\ RunToolCall(id)
  /\ UNCHANGED << ctlVars, rcVars, parseVars, rtVars, cvVars >>

\* the call that reached its await first resumes
ResumeToolCall ==
  /\ rlQueue # << >>
  /\ RunToolCall(Head(rlQueue))
  /\ UNCHANGED << ctlVars, rcVars, parseVars, rtVars, cvVars >>

\* a millisecond passes
ClockTick ==
  /\ rlNow < MaxClock
  /\ rlNow' = rlNow + 1
  /\ UNCHANGED << rlStrategy, rlStorage, rlBuckets, rlCalls, rlQueue,
                  rlInvoked >>
  /\ UNCHANGED << ctlVars, rcVars, parseVars, rtVars, cvVars >>

\* no tool was called
NoToolCalls ==
  /\ rlNow = 0
  /\ rlStorage = << >>
  /\ rlBuckets = [id \in ToolCalls |-> [tokens |-> 0, lastRefill |-> 0]]
  /\ rlCalls = [id \in ToolCalls |-> NoToolCall(id)]
  /\ rlQueue = << >>
  /\ rlInvoked = << >>

\* the retries that options.maxRetries may ask for
MaxRetries == 2

\* how a call of fn settles: with a value, or rejected with a
\* RateLimitExceededError, with another Error, or with a value that is not
\* an Error
FnOutcomes == {"value", "RateLimitExceededError", "Error", "not an Error"}

\* the catch block of withRetry up to the sleep: throw or sleep
catchBlock(opts, attempt, error) ==
  IF /\ opts.retryOnRateLimit
     /\ error # "RateLimitExceededError"
     /\ error \in {"RateLimitExceededError", "Error"}
  THEN "thrown"
  ELSE IF attempt >= opts.maxRetries THEN "thrown" ELSE "sleeping"

\* await fn() settles: the value is returned, or the catch block runs
FnSettles ==
  /\ rtPc = "calling"
  /\ \E outcome \in FnOutcomes :
       /\ rtOutcomes' = Append(rtOutcomes, outcome)
       /\ rtPc' = IF outcome = "value" THEN "returned"
                  ELSE catchBlock(rtOptions, rtAttempt, outcome)
       /\ rtSettled' = IF rtPc' = "sleeping" THEN rtSettled ELSE outcome
  /\ UNCHANGED << rtOptions, rtAttempt >>
  /\ UNCHANGED << ctlVars, rcVars, parseVars, rlVars, cvVars >>

\* the sleep ends: attempt++, and the loop goes on while
\* attempt <= opts.maxRetries; after the loop the last error is thrown
SleepEnds ==
  /\ rtPc = "sleeping"
  /\ rtAttempt' = rtAttempt + 1
  /\ rtPc' = IF rtAttempt' <= rtOptions.maxRetries THEN "calling" ELSE "thrown"
  /\ rtSettled' = IF rtPc' = "thrown" THEN rtOutcomes[Len(rtOutcomes)]
                  ELSE rtSettled
  /\ UNCHANGED << rtOptions, rtOutcomes >>
  /\ UNCHANGED << ctlVars, rcVars, parseVars, rlVars, cvVars >>

\* withRetry(fn, options) is called: the first pass through the loop
withRetryCalled ==
  /\ rtPc = "calling"
  /\ rtAttempt = 0
  /\ rtOutcomes = << >>
  /\ rtSettled = "pending"

\* withRetry is not in use
NoRetry ==
  /\ rtOptions = [maxRetries |-> 3, retryOnRateLimit |-> TRUE]
  /\ withRetryCalled

\* maxReconnectAttempts.current
maxReconnectAttempts == 5

\* the calls of startAssistant the user makes
MaxUserStarts == 2

\* the calls of stopAssistant the user makes
MaxUserStops == 2

\* Math.min(30000, 1000 * Math.pow(2, reconnectAttempts.current))
backoffTime(attempts) == Min({30000, 1000 * 2 ^ attempts})

\* clearTimeout(reconnectTimeoutRef.current)
clearTimeout(pending, id) == { t \in pending : t.id # id }

\* reconnect(): give up at the limit, otherwise replace the timer held by
\* one that fires after the backoff time
reconnect ==
  IF reconnectAttempts >= maxReconnectAttempts
  THEN /\ providerError' =
            "Failed to connect to voice service after multiple attempts"
       /\ UNCHANGED << reconnectTimeoutRef, timers, timerSeq >>
  ELSE /\ providerError' = "start failed"
       /\ timerSeq' = timerSeq + 1
       /\ timers' = clearTimeout(timers, reconnectTimeoutRef)
                      \cup {[id |-> timerSeq', attempts |-> reconnectAttempts,
                             backoffTime |-> backoffTime(reconnectAttempts)]}
       /\ reconnectTimeoutRef' = timerSeq'

\* startAssistant() up to its first await: setError(null)
startAssistant ==
  /\ starting' = starting + 1
  /\ providerError' = ""

\* the user calls startAssistant
UserStarts ==
  /\ userStarts < MaxUserStarts
  /\ userStarts' = userStarts + 1
  /\ startAssistant
  /\ stopped' = FALSE
  /\ UNCHANGED << isActive, reconnectAttempts, reconnectTimeoutRef, timers,
                  timerSeq, stopping, userStops >>
  /\ UNCHANGED << ctlVars, rcVars, parseVars, rlVars, rtVars >>

\* a startAssistant call in flight comes to its end: the microphone and the
\* session were obtained, or one of them failed and the catch block runs
StartSettles ==
  /\ starting > 0
  /\ starting' = starting - 1
  /\ \E ok \in BOOLEAN :
       IF ok
       THEN /\ isActive' = TRUE
            /\ reconnectAttempts' = 0
            /\ UNCHANGED << providerError, reconnectTimeoutRef, timers,
                            timerSeq >>
       ELSE /\ reconnect
            /\ UNCHANGED << isActive, reconnectAttempts >>
  /\ UNCHANGED << stopping, userStarts, userStops, stopped >>
  /\ UNCHANGED << ctlVars, rcVars, parseVars, rlVars, rtVars >>

\* a reconnect timer fires: one more attempt
TimerFires ==
  /\ \E t \in timers : timers' = timers \ {t}
  /\ reconnectAttempts' = reconnectAttempts + 1
  /\ startAssistant
  /\ UNCHANGED << isActive, reconnectTimeoutRef, timerSeq, stopping,
                  userStarts, userStops, stopped >>
  /\ UNCHANGED << ctlVars, rcVars, parseVars, rlVars, rtVars >>

\* the user calls stopAssistant: up to await endSession()
UserStops ==
  /\ userStops < MaxUserStops
  /\ userStops' = userStops + 1
  /\ stopping' = stopping + 1
  /\ UNCHANGED << isActive, providerError, reconnectAttempts,
                  reconnectTimeoutRef, timers, timerSeq, starting, userStarts,
                  stopped >>
  /\ UNCHANGED << ctlVars, rcVars, parseVars, rlVars, rtVars >>

\* a stopAssistant call in flight comes to its end: the session has ended
\* and the timer held is cleared, or endSession failed
StopSettles ==
  /\ stopping > 0
  /\ stopping' = stopping - 1
  /\ \E ok \in BOOLEAN :
       IF ok
       THEN /\ isActive' = FALSE
            /\ timers' = clearTimeout(timers, reconnectTimeoutRef)
            /\ reconnectTimeoutRef' = 0
            /\ stopped' = TRUE
            /\ UNCHANGED providerError
       ELSE /\ providerError' = "stop failed"
            /\ UNCHANGED << isActive, timers, reconnectTimeoutRef, stopped >>
  /\ UNCHANGED << reconnectAttempts, timerSeq, starting, userStarts,
                  userStops >>
  /\ UNCHANGED << ctlVars, rcVars, parseVars, rlVars, rtVars >>

\* the provider as mounted
InitProvider ==
  /\ isActive = FALSE
  /\ providerError = ""
  /\ reconnectAttempts = 0
  /\ reconnectTimeoutRef = 0
  /\ timers = {}
  /\ timerSeq = 0
  /\ starting = 0
  /\ stopping = 0
  /\ userStarts = 0
  /\ userStops = 0
  /\ stopped = FALSE

NoLibrary ==
  rlStrategy = "token-bucket" /\ NoToolCalls /\ NoRetry /\ InitProvider

\* applyEntitiesToFilters has not been called
NoCalls == rcResult = <<>> /\ rcHeap = EmptyObject

\* parseVoiceCommand has not been called
NoParse == pvText = "" /\ pvCommand = NoCommand

Init ==
  /\ InitController
  /\ rcEntities = EmptyObject
  /\ rcFilters = EmptyObject
  /\ NoCalls
  /\ NoParse
  /\ NoLibrary

Next ==
  \/ OpenVoiceSearch
  \/ CloseVoiceSearch
  \/ startListening
  \/ stopListening
  \/ OnResult
  \/ OnError
  \/ OnEnd
  \/ UtteranceEnd
  \/ stopSpeaking
  \/ QuestionTimer
  \/ SearchTimer

Spec == Init /\ [][Next]_vars

\* <<entities key, filter field>> of the seven list categories
ListCategories ==
  { <<"makes", "makes">>, <<"vehicleTypes", "vehicleTypes">>,
    <<"conditions", "conditions">>, <<"fuelTypes", "fuelTypes">>,
    <<"transmissions", "transmissions">>, <<"driveTypes", "driveTypes">>,
    <<"colors", "exteriorColors">> }

(***************************************************************************)
(* applyEntitiesToFilters on objects with identity.  A heap maps an        *)
(* address to an object or an array; an object holds the address of each   *)
(* of its arrays, and its numbers, booleans and nested ranges and features *)
(* by value.                                                               *)
(***************************************************************************)
\* the heap a call starts from: the two arguments and their arrays
HeapOf(entities, currentFilters) ==
  LET Arrays(name, obj, keys) == {<<name, k>> : k \in DOMAIN obj \cap keys}
      Object(name, obj, keys) ==
        [k \in DOMAIN obj |-> IF k \in keys THEN <<name, k>> ELSE obj[k]]
      keys   == {c[1] : c \in ListCategories}
      fields == {c[2] : c \in ListCategories}
  IN  [a \in {<<"entities">>, <<"currentFilters">>}
               \cup Arrays("entities", entities, keys)
               \cup Arrays("currentFilters", currentFilters, fields) |->
         IF a = <<"entities">> THEN Object("entities", entities, keys)
         ELSE IF a = <<"currentFilters">>
         THEN Object("currentFilters", currentFilters, fields)
         ELSE IF a[1] = "entities" THEN entities[a[2]]
         ELSE currentFilters[a[2]]]

\* the object at an address, with its arrays read through
Deref(heap, address) ==
  [k \in DOMAIN heap[address] |->
     IF \E c \in ListCategories : k \in {c[1], c[2]}
     THEN heap[heap[address][k]] ELSE heap[address][k]]

\* A faulty ConcatInHeap that pushes onto the array the field already has:
\* (updatedFilters[field] ||= []).push(...entities[key])
ConcatInHeap_Push(heap, key, field) ==
  LET Step(h) ==
        LET updated == h[<<"updatedFilters">>]
            added   == h[h[<<"entities">>][key]]
        IN  IF Has(updated, field)
            THEN Put(h, updated[field], h[updated[field]] \o added)
            ELSE Put(Put(h, <<"updatedFilters", field>>, added),
                     <<"updatedFilters">>,
                     Put(updated, field, <<"updatedFilters", field>>))
  IN  IF Has(heap[<<"entities">>], key) THEN Eval(Step, heap) ELSE heap

\* if (entities[key])
\*   updatedFilters[field] = [...(updatedFilters[field] || []), ...entities[key]]
\* the array literal is a new array
ConcatInHeap(heap, key, field) ==
  LET Step(h) ==
        LET updated  == h[<<"updatedFilters">>]
            existing == IF Has(updated, field) THEN h[updated[field]] ELSE <<>>
            added    == h[h[<<"entities">>][key]]
        IN  Put(Put(h, <<"updatedFilters", field>>, existing \o added),
                <<"updatedFilters">>,
                Put(updated, field, <<"updatedFilters", field>>))
  IN  IF Has(heap[<<"entities">>], key) THEN Eval(Step, heap) ELSE heap

\* the heap after the call, and the address of the object it returns
applyEntitiesToFiltersInHeap(heap) ==
  LET h0 == Put(heap, <<"updatedFilters">>, heap[<<"currentFilters">>])
      h1 == ConcatInHeap(h0, "makes", "makes")
      h2 == ConcatInHeap(h1, "vehicleTypes", "vehicleTypes")
      h3 == ConcatInHeap(h2, "conditions", "conditions")
      h4 == ConcatInHeap(h3, "fuelTypes", "fuelTypes")
      h5 == ConcatInHeap(h4, "transmissions", "transmissions")
      h6 == ConcatInHeap(h5, "driveTypes", "driveTypes")
      Scalars(h) ==
        LET entities == h[<<"entities">>]
            f8  == ApplyFeatures(h[<<"updatedFilters">>], entities)
            f9  == ApplyRange(f8, entities, "priceRange", "priceMin", "priceMax")
            f10 == ApplyRange(f9, entities, "yearRange", "yearMin", "yearMax")
        IN  Put(h, <<"updatedFilters">>,
                ApplyRange(f10, entities, "mileage", "mileageMin", "mileageMax"))
  IN  [ heap   |-> Eval(Scalars, ConcatInHeap(h6, "colors", "exteriorColors")),
        result |-> <<"updatedFilters">> ]

(***************************************************************************)
(* applyEntitiesToFilters on its own: the arguments are drawn from sample  *)
(* sets and the function is applied again and again to its own result.     *)
(***************************************************************************)
MaxCalls == 2

\* objs, and every obj of objs with key set to one of values
OptionalKey(objs, key, values) ==
  objs \cup {Put(o, key, v) : o \in objs, v \in values}

\* ranges of the shapes the extractors return
PriceRangeSamples ==
  { MaxOnly(0), MinOnly(0), MaxOnly(40000), MinOnly(20000),
    MinMax(20000, 50000), MaxOnly(NaN) }

YearRangeSamples == { MinOnly(2020), MinMax(2015, 2020) }

MileageSamples == { MaxOnly(50000), MinOnly(10000) }

EntitySamples ==
  LET e1 == OptionalKey({EmptyObject}, "makes", {<<"BMW">>})
      e2 == OptionalKey(e1, "features", {[f \in {"heatedSeats"} |-> TRUE]})
      e3 == OptionalKey(e2, "priceRange", PriceRangeSamples)
      e4 == OptionalKey(e3, "yearRange", YearRangeSamples)
  IN  OptionalKey(e4, "mileage", MileageSamples)

FilterSamples ==
  LET f1 == OptionalKey({EmptyObject}, "makes", {<<"Audi">>})
      f2 == OptionalKey(f1, "priceMin", {10000})
      f3 == OptionalKey(f2, "priceMax", {60000})
      f4 == OptionalKey(f3, "yearMin", {2010})
      f5 == OptionalKey(f4, "yearMax", {2022})
      f6 == OptionalKey(f5, "mileageMin", {5000})
  IN  OptionalKey(f6, "mileageMax", {100000})

InitReconcile ==
  /\ InitController
  /\ rcEntities \in EntitySamples
  /\ rcFilters \in FilterSamples
  /\ NoCalls
  /\ NoParse
  /\ NoLibrary

\* one more call, on the filters the previous call returned
Reconcile ==
  /\ Len(rcResult) < MaxCalls
  /\ LET currentFilters ==
           IF rcResult = <<>> THEN rcFilters ELSE rcResult[Len(rcResult)]
         Call(before) ==
           LET after == applyEntitiesToFiltersInHeap(before)
           IN  [before |-> before, after |-> after.heap,
                result |-> after.result]
     IN  /\ rcResult' =
              Append(rcResult,
                     applyEntitiesToFilters(rcEntities, currentFilters))
         /\ rcHeap' = Eval(Call, HeapOf(rcEntities, currentFilters))
  /\ UNCHANGED << ctlVars, rcEntities, rcFilters, parseVars, libVars >>

\* entities with any of the list categories, as extractKeywords returns them
ListEntitySamples ==
  LET e1 == OptionalKey({EmptyObject}, "makes", {<<"BMW">>, <<"BMW", "Audi">>})
      e2 == OptionalKey(e1, "vehicleTypes", {<<"suv">>})
      e3 == OptionalKey(e2, "conditions", {<<"used">>})
      e4 == OptionalKey(e3, "fuelTypes", {<<"electric">>})
      e5 == OptionalKey(e4, "transmissions", {<<"automatic">>})
      e6 == OptionalKey(e5, "driveTypes", {<<"awd">>})
  IN  OptionalKey(e6, "colors", {<<"red">>})

\* filters with any of the list fields; makes may be the empty array the
\* Inventory page starts with
ListFilterSamples ==
  LET f1 == OptionalKey({EmptyObject}, "makes", {<<>>, <<"BMW">>})
      f2 == OptionalKey(f1, "vehicleTypes", {<<"suv">>})
      f3 == OptionalKey(f2, "conditions", {<<"new">>})
      f4 == OptionalKey(f3, "fuelTypes", {<<"diesel">>})
      f5 == OptionalKey(f4, "transmissions", {<<"manual">>})
      f6 == OptionalKey(f5, "driveTypes", {<<"awd">>})
  IN  OptionalKey(f6, "exteriorColors", {<<"blue">>})

InitReconcileLists ==
  /\ InitController
  /\ rcEntities \in ListEntitySamples
  /\ rcFilters \in ListFilterSamples
  /\ NoCalls
  /\ NoParse
  /\ NoLibrary

NextReconcile == Reconcile

SpecReconcile == InitReconcile /\ [][NextReconcile]_vars

SpecReconcileLists == InitReconcileLists /\ [][NextReconcile]_vars

(***************************************************************************)
(* parseVoiceCommand on its own: the text is drawn from sample utterances  *)
(* and the function is applied to it.                                      *)
(***************************************************************************)
\* utterances put together from an opening, a description and an ending,
\* and some said as they are
ParseTexts ==
  { lead \o body \o tail :
      lead \in {"", "find ", "I want ", "yes, show me ", "compare ", "no ",
                "reset "},
      body \in {"", "a BMW", "a used BMW SUV", "a sedan or saloon",
                "an electric automatic Audi estate", "mercedes benz"},
      tail \in {"", " under 30000", " 2020", " 45000 km",
                " and yes I'm sure", " with heated seats"} }
    \cup Utterances
    \cup { "Show me a manual Audi SUV below 30000", "Tesla under 50000",
           "under 2020", "min 45000 km", "over 20000 under 50000",
           "30000", "2020", "yes, show me BMWs", "I want a sedan",
           "I want a saloon", "I want to find a BMW", "hello there",
           "I want to find a used BMW SUV",
           "tell me about it", "between 20000 and 50000", "over 10,000 km",
           "from 2018", "before 2015", "change it", "that is correct",
           "clear", "  Looking for a RED Tesla  ", "an Audi or a BMW",
           "a semi-automatic diesel" }

InitParse ==
  /\ InitController
  /\ rcEntities = EmptyObject
  /\ rcFilters = EmptyObject
  /\ NoCalls
  /\ pvText \in ParseTexts
  /\ pvCommand = NoCommand
  /\ NoLibrary

\* const command = parseVoiceCommand(text)
Parse ==
  /\ pvCommand = NoCommand
  /\ pvCommand' = parseVoiceCommand(pvText)
  /\ UNCHANGED << ctlVars, rcVars, pvText, libVars >>

NextParse == Parse

SpecParse == InitParse /\ [][NextParse]_vars

(***************************************************************************)
(* The rate limiter on its own: one tool, called up to MaxToolCalls times  *)
(* while the clock runs, under each strategy.                              *)
(***************************************************************************)
InitRateLimiter ==
  /\ InitController
  /\ rcEntities = EmptyObject
  /\ rcFilters = EmptyObject
  /\ NoCalls
  /\ NoParse
  /\ rlStrategy \in Strategies
  /\ NoToolCalls
  /\ NoRetry
  /\ InitProvider

NextRateLimiter ==
  \/ CallTool
  \/ ResumeToolCall
  \/ ClockTick

SpecRateLimiter == InitRateLimiter /\ [][NextRateLimiter]_vars

(***************************************************************************)
(* withRetry on its own: every option pair, and fn settling in every way   *)
(* at every attempt.  The second specification adds that fn settles and    *)
(* the sleep ends.                                                         *)
(***************************************************************************)
InitRetry ==
  /\ InitController
  /\ rcEntities = EmptyObject
  /\ rcFilters = EmptyObject
  /\ NoCalls
  /\ NoParse
  /\ rlStrategy = "token-bucket"
  /\ NoToolCalls
  /\ rtOptions \in [maxRetries : 0 .. MaxRetries, retryOnRateLimit : BOOLEAN]
  /\ withRetryCalled
  /\ InitProvider

NextRetry ==
  \/ FnSettles
  \/ SleepEnds

SpecRetry == InitRetry /\ [][NextRetry]_vars

SpecRetryFair == SpecRetry /\ WF_vars(FnSettles) /\ WF_vars(SleepEnds)

(***************************************************************************)
(* The ConvAIProvider on its own: the user starts and stops the assistant, *)
(* the calls in flight succeed or fail, and the reconnect timers fire.     *)
(***************************************************************************)
NextProvider ==
  \/ UserStarts
  \/ StartSettles
  \/ TimerFires
  \/ UserStops
  \/ StopSettles

SpecProvider == Init /\ [][NextProvider]_vars

(***************************************************************************)
(* Properties of parseVoiceCommand (specification SpecParse)               *)
(***************************************************************************)
Parsed == pvCommand # NoCommand

\* the utterance as the rules see it
Lowered == toLowerCase(pvText)

\* the keyword rules of C14, in their order
IntentRules ==
  << <<{"find", "search", "show", "looking for"}, "search_cars">>,
     <<{"compare", "comparison"}, "compare_cars">>,
     <<{"detail", "more info", "tell me about"}, "car_details">>,
     <<{"reset", "clear", "start over"}, "reset_filters">>,
     <<{"yes", "correct", "right"}, "confirm">>,
     <<{"no", "wrong", "change"}, "deny">> >>

\* the rules that apply to a text
RulesApplying(text) ==
  {r \in DOMAIN IntentRules : \E w \in IntentRules[r][1] : includes(text, w)}

\* C14: the intent is that of the first keyword rule, in the fixed order,
\* with a keyword in the lower-cased utterance, whatever was extracted; with
\* no such rule it is specify_filters if an entity was extracted and unknown
\* otherwise.
C14_IntentByFirstRule ==
  Parsed =>
    LET applying == RulesApplying(Lowered)
    IN  pvCommand.intent =
          IF applying # {} THEN IntentRules[Min(applying)][2]
          ELSE IF DOMAIN pvCommand.entities # {} THEN "specify_filters"
          ELSE "unknown"

\* a search keyword wins over a later "yes" and over the extracted make
C14_SearchBeforeConfirm ==
  /\ pvText = "find a BMW and yes I'm sure"
  /\ pvCommand.intent = "search_cars"
  /\ Has(pvCommand.entities, "makes")

\* C15 as stated: parseVoiceCommand("yes, show me BMWs") has intent confirm.
C15_YesShowMeIsConfirm ==
  (Parsed /\ pvText = "yes, show me BMWs") => pvCommand.intent = "confirm"

\* C15 as the code has it: parseVoiceCommand("yes, show me BMWs") has intent
\* search_cars, because the utterance holds the search keyword "show", which
\* is looked for before "yes".
C15_YesShowMeIsSearch ==
  (Parsed /\ pvText = "yes, show me BMWs") =>
    /\ includes(Lowered, "show") /\ includes(Lowered, "yes")
    /\ pvCommand.intent = "search_cars"

\* "yes, show me BMWs" has been parsed
C15_YesShowMeParsed ==
  /\ pvText = "yes, show me BMWs"
  /\ Parsed
  /\ pvCommand.entities = [k \in {"makes"} |-> <<"BMW">>]

BoosterPhrases == {"find", "search", "looking for", "want", "need", "show me"}

HasBooster == \E w \in BoosterPhrases : includes(Lowered, w)

\* C16, with the confidence in tenths: confidence is the smaller of 1 and
\* 0.5 + 0.1 for each populated category + 0.2 if some booster phrase occurs,
\* so it lies between 0 and 1; with exactly 3 categories and a booster phrase
\* it is higher than for the same categories with none.
C16_Confidence ==
  Parsed =>
    LET n == Cardinality(DOMAIN pvCommand.entities)
    IN  /\ pvCommand.confidence
             = Min({10, 5 + n + (IF HasBooster THEN 2 ELSE 0)})
        /\ 0 <= pvCommand.confidence /\ pvCommand.confidence <= 10
        /\ (n = 3 /\ HasBooster) =>
             pvCommand.confidence
               > calculateConfidence(pvCommand.entities, "")

\* three categories and the phrases "want" and "find" in one utterance
C16_ThreeCategoriesTwoBoosters ==
  /\ pvText = "I want to find a used BMW SUV"
  /\ Cardinality(DOMAIN pvCommand.entities) = 3
  /\ pvCommand.confidence = 10

\* the categories parseVoiceCommand fills with extractKeywords
KeywordCategories ==
  {"makes", "vehicleTypes", "conditions", "fuelTypes", "transmissions",
   "driveTypes", "colors"}

\* the table entries of a category whose keyword is a substring of the text
KeywordHits(text, key) ==
  {i \in DOMAIN KEYWORD_MAPPINGS[key] :
     includes(text, KEYWORD_MAPPINGS[key][i][1])}

\* the first table entry among the hits that carries a canonical value
FirstHitOf(text, key, value) ==
  CHOOSE i \in KeywordHits(text, key) :
    /\ KEYWORD_MAPPINGS[key][i][2] = value
    /\ \A j \in KeywordHits(text, key) :
         KEYWORD_MAPPINGS[key][j][2] = value => i <= j

\* C18: for every keyword category the extracted list holds the canonical
\* value of every table keyword that is a substring of the lower-cased
\* utterance, each value once, ordered by the first table entry that gave
\* it; the category's key is present exactly if that list is not empty;
\* "I want a sedan" and "I want a saloon" both give vehicleTypes
\* <<"saloon">>.
C18_KeywordScan ==
  Parsed =>
    LET e == pvCommand.entities
    IN  /\ \A key \in KeywordCategories :
             LET hits == KeywordHits(Lowered, key)
                 values == {KEYWORD_MAPPINGS[key][i][2] : i \in hits}
             IN  /\ Has(e, key) <=> hits # {}
                 /\ Has(e, key) =>
                      /\ Len(e[key]) >= 1
                      /\ {e[key][n] : n \in 1..Len(e[key])} = values
                      /\ \A m, n \in 1..Len(e[key]) :
                           m < n =>
                             /\ e[key][m] # e[key][n]
                             /\ FirstHitOf(Lowered, key, e[key][m])
                                  < FirstHitOf(Lowered, key, e[key][n])
        /\ pvText \in {"I want a sedan", "I want a saloon"} =>
             Has(e, "vehicleTypes") /\ e.vehicleTypes = <<"saloon">>
        /\ pvText = "an Audi or a BMW" => e.makes = <<"BMW", "Audi">>

\* an utterance with both synonyms: the value is kept once
C18_SedanOrSaloon ==
  /\ pvText = "I want a sedan or saloon"
  /\ Parsed
  /\ Cardinality(KeywordHits(Lowered, "vehicleTypes")) = 2
  /\ pvCommand.entities.vehicleTypes = <<"saloon">>

\* <<entities key, pattern list>> of the numeric extractors
NumericExtractors ==
  { <<"priceRange", PRICE_PATTERNS>>, <<"yearRange", YEAR_PATTERNS>>,
    <<"mileage", MILEAGE_PATTERNS>> }

\* the number a captured text stands for, thousands separators removed
CapturedNumber(str) == parseNumber(str)

\* the range C26 describes for the match of the first matching pattern; with
\* one number and no keyword C26 leaves the bound open
RangeByKeywords(text, match, range) ==
  IF includesAny(text, {"under", "less than", "below", "max"})
  THEN range = MaxOnly(CapturedNumber(match.groups[1]))
  ELSE IF includesAny(text, {"over", "more than", "above", "min"})
  THEN range = MinOnly(CapturedNumber(match.groups[1]))
  ELSE IF Len(match.groups) >= 2
  THEN range = MinMax(CapturedNumber(match.groups[1]),
                      CapturedNumber(match.groups[2]))
  ELSE Cardinality(DOMAIN range) = 1

\* C26: each numeric extractor gives a range exactly if one of its patterns
\* matches, computed from the first pattern that matches: max-only with a
\* max keyword anywhere in the utterance, else min-only with a min keyword
\* anywhere, else both bounds when two numbers were captured; "between
\* 20000 and 50000" gives priceRange {min: 20000, max: 50000}.
C26_FirstPatternThenKeywords ==
  Parsed =>
    LET e == pvCommand.entities
        text == trim(Lowered)
    IN  /\ \A x \in NumericExtractors :
             LET match == FirstMatch(text, x[2])
             IN  /\ Has(e, x[1]) <=> match.ok
                 /\ match.ok => RangeByKeywords(text, match, e[x[1]])
        /\ pvText = "between 20000 and 50000" =>
             Has(e, "priceRange") /\ e.priceRange = MinMax(20000, 50000)

\* the words that give a number a direction or make it one end of a range
DirectionKeywords ==
  {"under", "less than", "below", "max", "over", "more than", "above", "min",
   "from", "after", "since", "before", "until", "between"}

NoDirectionKeyword == \A w \in DirectionKeywords : ~includes(Lowered, w)

HasNumber == \E i \in 1..Len(pvText) : IsDigit(At(pvText, i))

HasUnit == \E u \in {"km", "kilometer", "mile", "mi"} : includes(Lowered, u)

\* C17 as stated: a number in an utterance with no direction keyword is
\* extracted as a maximum with no minimum for price and for mileage, and as a
\* minimum with no maximum for year.
C17_BareNumberIsMileageMax ==
  (Parsed /\ NoDirectionKeyword /\ HasNumber) =>
    LET e == pvCommand.entities
    IN  /\ Has(e, "priceRange") /\ DOMAIN e.priceRange = {"max"}
        /\ Has(e, "mileage") /\ DOMAIN e.mileage = {"max"}
        /\ Has(e, "yearRange") /\ DOMAIN e.yearRange = {"min"}

\* C17 as the code has it: in an utterance with no direction keyword a
\* number is extracted as a maximum with no minimum for price, as a minimum
\* with no maximum for year, and as a maximum with no minimum for mileage
\* only if a unit follows it: with no unit there is no mileage bound.
\* "30000" gives priceRange {max: 30000} and no mileage, "2020" gives
\* yearRange {min: 2020}.
C17_BareNumberDefaults ==
  Parsed =>
    LET e == pvCommand.entities
    IN  /\ (NoDirectionKeyword /\ HasNumber) =>
             /\ Has(e, "priceRange") /\ DOMAIN e.priceRange = {"max"}
             /\ Has(e, "yearRange") => DOMAIN e.yearRange = {"min"}
             /\ Has(e, "mileage") => DOMAIN e.mileage = {"max"}
             /\ ~HasUnit => ~Has(e, "mileage")
        /\ pvText = "30000" =>
             /\ Has(e, "priceRange") /\ e.priceRange = MaxOnly(30000)
             /\ ~Has(e, "mileage")
        /\ pvText = "2020" =>
             Has(e, "yearRange") /\ e.yearRange = MinOnly(2020)

\* a number with a unit and no direction keyword: all three are extracted
C17_BareNumberWithUnit ==
  /\ pvText = "a BMW 45000 km"
  /\ Parsed
  /\ pvCommand.entities.priceRange = MaxOnly(45000)
  /\ pvCommand.entities.mileage = MaxOnly(45000)
  /\ pvCommand.entities.yearRange = MinOnly(4500)

(***************************************************************************)
(* Properties of the dialogue controller (specification Spec)              *)
(***************************************************************************)
IsEmptyObject(obj) == DOMAIN obj = {}

FilterIntents == {"search_cars", "specify_filters"}

SpeakOnlyIntents == {"deny", "compare_cars", "car_details", "unknown"}

\* a step that handles one final transcript
IsTurn == turns' = turns + 1

LastMessage(messages) == messages[Len(messages)]

\* the filter fields a turn's entities mention
FieldsMentioned(entities) ==
  LET Bounds(key, minField, maxField) ==
        IF Has(entities, key)
        THEN (IF Has(entities[key], "min") THEN {minField} ELSE {})
               \cup (IF Has(entities[key], "max") THEN {maxField} ELSE {})
        ELSE {}
  IN  {k \in {"makes", "vehicleTypes", "conditions", "fuelTypes",
              "transmissions", "driveTypes"} : Has(entities, k)}
        \cup (IF Has(entities, "colors") THEN {"exteriorColors"} ELSE {})
        \cup (IF Has(entities, "features")
              THEN DOMAIN entities.features ELSE {})
        \cup Bounds("priceRange", "priceMin", "priceMax")
        \cup Bounds("yearRange", "yearMin", "yearMax")
        \cup Bounds("mileage", "mileageMin", "mileageMax")

\* C1: in every search_cars/specify_filters turn, each field collected by an
\* earlier turn and not mentioned in this turn keeps its earlier value, in
\* collectedFilters and in the filters handed to onFiltersUpdate.
C1_TurnsAccumulate ==
  [][ (IsTurn /\ lastCommand'.intent \in FilterIntents) =>
        \A k \in DOMAIN conversationState.collectedFilters
                   \ FieldsMentioned(lastCommand'.entities) :
          /\ Has(conversationState'.collectedFilters, k)
          /\ conversationState'.collectedFilters[k]
               = conversationState.collectedFilters[k]
          /\ Has(filters', k)
          /\ filters'[k] = conversationState.collectedFilters[k] ]_vars

\* C2: a reset_filters turn, whatever came before it, leaves collectedFilters
\* empty, hands the empty filter set to onFiltersUpdate, and leaves
\* currentStep at collecting_preferences.
C2_ResetClears ==
  [][ (IsTurn /\ lastCommand'.intent = "reset_filters") =>
        /\ IsEmptyObject(conversationState'.collectedFilters)
        /\ conversationState'.currentStep = "collecting_preferences"
        /\ IsEmptyObject(filters')
        /\ filtersUpdateCalls' = filtersUpdateCalls + 1 ]_vars

\* a reset turn that followed a turn which had published filters
C2_ResetAfterFilters ==
  /\ lastCommand.intent = "reset_filters"
  /\ turns >= 2
  /\ filtersUpdateCalls >= 2
  /\ IsEmptyObject(filters)
  /\ IsEmptyObject(conversationState.collectedFilters)

\* the acknowledgements of confirm turns in the conversation
ConfirmAcks ==
  {i \in DOMAIN conversation :
     conversation[i] = [type |-> "assistant", text |-> confirmationResponse]}

\* C3: a confirm turn speaks an acknowledgement and sets currentStep to done,
\* and onSearch is signalled (or still due) exactly once per confirm turn and
\* for no other turn.
C3_ConfirmEndsInDone ==
  /\ lastCommand.intent = "confirm" =>
       /\ ConfirmAcks # {}
       /\ conversationState.currentStep = "done"
  /\ searchCalls + searchTimers = Cardinality(ConfirmAcks)

\* C28: once a confirm turn has been acknowledged, the 2000 ms timer of a
\* filter turn adds no clarifying question and speaks none, whether the
\* dialog is still open or the search timer has closed it.
C28_NoQuestionAfterConfirm ==
  [][ ConfirmAcks # {} =>
        ~( /\ QuestionTimer
           /\ Len(conversation') = Len(conversation) + 1
           /\ synthPending' = synthPending + 1 ) ]_vars

\* C4: once a confirm turn has been handled, no later turn of the same
\* session changes collectedFilters, calls onFiltersUpdate, or signals the
\* search again.
C4_DoneIsTerminal ==
  [][ (confirmed /\ IsTurn) =>
        /\ conversationState'.collectedFilters
             = conversationState.collectedFilters
        /\ filtersUpdateCalls' = filtersUpdateCalls
        /\ searchTimers' = searchTimers
        /\ searchCalls' = searchCalls ]_vars

\* C5: opening the dialog starts a fresh session: the greeting is emitted,
\* currentStep is collecting_preferences and collectedFilters is empty.
C5_NewSessionReinitialised ==
  [][ (~showVoiceSearch /\ showVoiceSearch') =>
        /\ conversation' =
             Append(conversation,
                    [type |-> "assistant", text |-> welcomeMessage])
        /\ conversationState'.currentStep = "collecting_preferences"
        /\ IsEmptyObject(conversationState'.collectedFilters) ]_vars

\* C6: a deny, compare_cars, car_details or unknown turn only speaks a
\* prompt: collectedFilters and the published filters are unchanged,
\* onFiltersUpdate is not called, no search is signalled or scheduled, and
\* currentStep stays collecting_preferences.
C6_SpeakOnlyTurns ==
  [][ (IsTurn /\ lastCommand'.intent \in SpeakOnlyIntents) =>
        /\ conversationState'.collectedFilters
             = conversationState.collectedFilters
        /\ conversationState.currentStep = "collecting_preferences"
        /\ conversationState'.currentStep = "collecting_preferences"
        /\ filters' = filters
        /\ filtersUpdateCalls' = filtersUpdateCalls
        /\ searchCalls' = searchCalls
        /\ searchTimers' = searchTimers
        /\ questionTimers' = questionTimers
        /\ Len(conversation') = Len(conversation) + 2
        /\ LastMessage(conversation').type = "assistant"
        /\ LastMessage(conversation').text \in {denialResponse, unknownResponse}
    ]_vars

\* a speak-only turn taken while filters are collected
C6_SpeakOnlyAfterFilters ==
  /\ lastCommand.intent \in SpeakOnlyIntents
  /\ turns >= 2
  /\ ~IsEmptyObject(conversationState.collectedFilters)
  /\ filtersUpdateCalls = 1

\* the checklist of C7: a field counts as collected when it is present
ChecklistQuestion(f) ==
  IF ~Has(f, "makes") \/ Len(f.makes) = 0 THEN AskMake
  ELSE IF ~Has(f, "priceMin") /\ ~Has(f, "priceMax") THEN AskBudget
  ELSE IF ~Has(f, "vehicleTypes") \/ Len(f.vehicleTypes) = 0
  THEN AskVehicleType
  ELSE IF ~Has(f, "transmissions") \/ Len(f.transmissions) = 0
  THEN AskTransmission
  ELSE AskAnythingElse

\* C7: the question asked after a search_cars/specify_filters turn is the one
\* the priority checklist picks for that turn's filter state, a price bound
\* of 0 counting as collected.
C7_NextQuestionByChecklist ==
  [][ (questionTimers # <<>> /\ questionTimers' = Tail(questionTimers)) =>
        LastMessage(conversation') =
          [type |-> "assistant",
           text |-> ChecklistQuestion(Head(questionTimers))] ]_vars

C8_Utterance == "I need a used BMW SUV under 40000 euros with heated seats"

C8_Filters ==
  [ makes |-> <<"BMW">>, vehicleTypes |-> <<"suv">>, conditions |-> <<"used">>,
    priceMax |-> 40000, heatedSeats |-> TRUE ]

\* C8: after the single turn "I need a used BMW SUV under 40000 euros with
\* heated seats" from the empty filter state, the filter state is exactly
\* {makes:[BMW], vehicleTypes:[suv], conditions:[used], priceMax:40000,
\* heatedSeats:true}.
C8_EndToEndFilters ==
  (/\ turns = 1
   /\ Len(conversation) >= 2
   /\ conversation[2] = [type |-> "user", text |-> C8_Utterance])
    => /\ DOMAIN conversationState.collectedFilters = DOMAIN C8_Filters
       /\ \A k \in DOMAIN C8_Filters :
            conversationState.collectedFilters[k] = C8_Filters[k]

\* the user messages of the conversation, by position
\* C27: once onFiltersUpdate has been called, the filter set it was handed
\* last equals collectedFilters, in every state (so after every turn).
C27_HandedEqualsCollected ==
  filtersUpdateCalls > 0 => filters = conversationState.collectedFilters

\* two filter turns heard one after the other, the second handed on
C27_TwoFilterTurns ==
  /\ turns = 2
  /\ filtersUpdateCalls = 2
  /\ lastCommand.intent \in FilterIntents
  /\ ~IsEmptyObject(filters)
  /\ filters = conversationState.collectedFilters

NoTurnEffects ==
  UNCHANGED << conversation, conversationState, filters, filtersUpdateCalls,
               searchCalls, lastCommand, isSpeaking, synthPending,
               questionTimers, searchTimers >>

\* C22: a recogniser event with an empty final transcript, and a recogniser
\* error, add no message, extract and reconcile nothing and leave
\* currentStep and collectedFilters as they were; the error ends listening
\* and raises the error toast.
C22_UnrecognisedIsNoOp ==
  [][ /\ (OnResult /\ turns' = turns) => NoTurnEffects
      /\ OnError => /\ NoTurnEffects
                    /\ ~isListening'
                    /\ toastTitle' = "Voice Recognition Error" ]_vars

\* a recogniser error after a turn that collected filters and an event that
\* carried interim text only
C22_ErrorAfterFilters ==
  /\ toastTitle = "Voice Recognition Error"
  /\ transcript = "I need"
  /\ ~isListening
  /\ turns >= 1
  /\ ~IsEmptyObject(conversationState.collectedFilters)

\* C21: the isListening flag is true exactly while the recogniser is
\* capturing.
C21_ListeningExactlyWhileCapturing ==
  isListening <=> recognizing

\* C20: the isSpeaking flag is true exactly while speechSynthesis has an
\* utterance that has not ended (being spoken, or queued behind the one
\* being spoken).
C20_SpeakingExactlyWhileSynthesizing ==
  isSpeaking <=> synthPending > 0

UserTurns == {i \in DOMAIN conversation : conversation[i].type = "user"}

\* position of the latest reset_filters turn, 0 if there is none
LastReset ==
  Max({0} \cup {i \in UserTurns :
                  Commands[conversation[i].text].intent = "reset_filters"})

\* every value the search_cars/specify_filters turns since the last reset
\* extracted for an entities key
ExtractedSinceReset(key) ==
  UNION { {Commands[conversation[i].text].entities[key][n] :
             n \in DOMAIN Commands[conversation[i].text].entities[key]} :
          i \in {j \in UserTurns :
                   /\ j > LastReset
                   /\ Commands[conversation[j].text].intent \in FilterIntents
                   /\ Has(Commands[conversation[j].text].entities, key)} }

\* C12: in every reachable state each list-valued field of collectedFilters
\* holds every value extracted for it since the last reset, and holds no
\* value twice.
C12_ListsAreDedupedUnions ==
  \A c \in ListCategories :
    LET list == ListOf(conversationState.collectedFilters, c[2])
    IN  /\ {list[n] : n \in DOMAIN list} = ExtractedSinceReset(c[1])
        /\ Cardinality({list[n] : n \in DOMAIN list}) = Len(list)

(***************************************************************************)
(* Properties of applyEntitiesToFilters (specification SpecReconcile)      *)
(***************************************************************************)
\* the argument of call i
ArgumentOf(i) == IF i = 1 THEN rcFilters ELSE rcResult[i - 1]

\* <<field, entity key, bound>> for the six scalar bounds
ScalarBounds ==
  { <<"priceMin", "priceRange", "min">>, <<"priceMax", "priceRange", "max">>,
    <<"yearMin", "yearRange", "min">>, <<"yearMax", "yearRange", "max">>,
    <<"mileageMin", "mileage", "min">>, <<"mileageMax", "mileage", "max">> }

\* C9: for each of the six scalar bounds, a bound present in the extracted
\* range is the field's value in the result, and a bound absent from the
\* extraction leaves the field as it was in the input filters.
C9_LastWriteWins ==
  \A i \in DOMAIN rcResult : \A b \in ScalarBounds :
    LET field == b[1]
        key   == b[2]
        bound == b[3]
        in    == ArgumentOf(i)
        out   == rcResult[i]
    IN  IF Has(rcEntities, key) /\ Has(rcEntities[key], bound)
        THEN Has(out, field) /\ out[field] = rcEntities[key][bound]
        ELSE /\ Has(out, field) <=> Has(in, field)
             /\ Has(in, field) => out[field] = in[field]

\* a call that overwrote priceMax with 0 and priceMin with nothing
C9_OverwroteOneBound ==
  /\ Len(rcResult) >= 1
  /\ Has(rcEntities, "priceRange")
  /\ rcEntities.priceRange = MaxOnly(0)
  /\ Has(rcFilters, "priceMin") /\ Has(rcFilters, "priceMax")
  /\ rcResult[1].priceMax = 0
  /\ rcResult[1].priceMin = rcFilters.priceMin

OnlyRangesAndFeatures(entities) ==
  DOMAIN entities \subseteq {"priceRange", "yearRange", "mileage", "features"}

\* C10: for entities holding only scalar ranges and boolean features,
\* applying them to the result of applying them changes nothing.
C10_Idempotent ==
  OnlyRangesAndFeatures(rcEntities) =>
    \A i \in 2..Len(rcResult) : rcResult[i] = rcResult[1]

\* a second call with ranges and a feature, on filters the first call changed
C10_AppliedTwice ==
  /\ Len(rcResult) >= 2
  /\ OnlyRangesAndFeatures(rcEntities)
  /\ Has(rcEntities, "priceRange") /\ Has(rcEntities, "features")
  /\ rcResult[1] # rcFilters
  /\ rcResult[2] = rcResult[1]

C13_Pure ==
  Len(rcResult) >= 1 =>
    /\ \A a \in DOMAIN rcHeap.before : rcHeap.after[a] = rcHeap.before[a]
    /\ rcHeap.result \notin DOMAIN rcHeap.before
    /\ Deref(rcHeap.before, <<"currentFilters">>) = ArgumentOf(Len(rcResult))
    /\ Deref(rcHeap.before, <<"entities">>) = rcEntities
    /\ Deref(rcHeap.after, rcHeap.result) = rcResult[Len(rcResult)]

\* a call that extended a makes array the input already had
C13_ExtendedExistingArray ==
  /\ Len(rcResult) = 1
  /\ Has(rcFilters, "makes") /\ Has(rcEntities, "makes")
  /\ rcHeap.after[<<"currentFilters", "makes">>] = <<"Audi">>
  /\ rcHeap.after[<<"updatedFilters", "makes">>] = <<"Audi", "BMW">>
  /\ rcResult[1].makes = <<"Audi", "BMW">>

(***************************************************************************)
(* Properties of applyEntitiesToFilters on lists                           *)
(* (specification SpecReconcileLists)                                      *)
(***************************************************************************)
\* C11: for each of the seven list categories the result's array is the
\* input's array (empty if absent) followed by the extracted array, with
\* nothing removed; a category that was not extracted leaves its field as it
\* was.  Applying {makes: ["BMW"]} twice to the empty state gives
\* makes = ["BMW", "BMW"].
C11_ListsConcatenate ==
  /\ \A i \in DOMAIN rcResult : \A c \in ListCategories :
       LET key   == c[1]
           field == c[2]
           in    == ArgumentOf(i)
           out   == rcResult[i]
       IN  IF Has(rcEntities, key)
           THEN Has(out, field)
                  /\ out[field] = ListOf(in, field) \o rcEntities[key]
           ELSE /\ Has(out, field) <=> Has(in, field)
                /\ Has(in, field) => out[field] = in[field]
  /\ (/\ rcEntities = [k \in {"makes"} |-> <<"BMW">>]
      /\ IsEmptyObject(rcFilters)
      /\ Len(rcResult) >= 2)
       => rcResult[2] = [k \in {"makes"} |-> <<"BMW", "BMW">>]

\* {makes: ["BMW"]} applied twice to the empty state
C11_BMWTwice ==
  /\ rcEntities = [k \in {"makes"} |-> <<"BMW">>]
  /\ IsEmptyObject(rcFilters)
  /\ Len(rcResult) >= 2
  /\ Len(rcResult[2].makes) = 2
  /\ rcResult[2].makes[1] = "BMW" /\ rcResult[2].makes[2] = "BMW"

(***************************************************************************)
(* Properties of the rate limiter (specification SpecRateLimiter)          *)
(***************************************************************************)
\* the invocations of the wrapped function made in the windowMs
\* milliseconds that begin at start
InvokedInWindow(start) ==
  { i \in DOMAIN rlInvoked :
      rlInvoked[i] \in start .. start + OptWindowMs - 1 }

\* C24: under every strategy and every interleaving of the calls, at most
\* maxCalls invocations of the wrapped function are made within any one
\* window of windowMs (a call that is let through is never one beyond the
\* limit).
C24_AtMostMaxCallsPerWindow ==
  \A start \in 0 .. MaxClock :
    Cardinality(InvokedInWindow(start)) <= OptMaxCalls

\* the bucket state the storage holds at now: the stored object, or a full
\* bucket where none is stored or the stored one has expired
StoredBucket(now) ==
  LET read == storageGet(rlStorage, BucketKey, now)
  IN  IF read.found THEN rlBuckets[read.value]
      ELSE [tokens |-> OptMaxCalls * Token, lastRefill |-> now]

\* C29: under the token-bucket strategy the stored token count stays within
\* 0 and maxCalls, and a call is let through only when the stored bucket,
\* refilled for the call, holds at least one whole token, and then leaves
\* the stored count exactly one token lower; this with several calls in
\* flight, the first ones included.
C29_TokenBucketAccounting ==
  [][ rlStrategy = "token-bucket" =>
        /\ StoredBucket(rlNow)'.tokens \in 0 .. OptMaxCalls * Token
        /\ \A id \in ToolCalls :
             ( /\ rlCalls[id].pc = "tb_refill"
               /\ rlCalls'[id].pc = "result"
               /\ rlCalls'[id].allowed )
             => LET available ==
                      Refilled(StoredBucket(rlNow), rlCalls[id].now)
                IN  /\ available >= Token
                    /\ StoredBucket(rlNow)'.tokens = available - Token
    ]_vars

(***************************************************************************)
(* Properties of withRetry (specifications SpecRetry and SpecRetryFair)    *)
(***************************************************************************)
\* C25: withRetry invokes fn at most maxRetries + 1 times; it returns the
\* first value fn settles with, and otherwise throws what the last attempt
\* threw; with retryOnRateLimit, only a RateLimitExceededError is followed
\* by another attempt.
C25_BoundedRetry ==
  LET n == Len(rtOutcomes)
  IN  /\ n <= rtOptions.maxRetries + 1
      /\ \A i \in 1 .. n - 1 : rtOutcomes[i] # "value"
      /\ rtPc = "returned" => rtOutcomes[n] = "value" /\ rtSettled = "value"
      /\ rtPc = "thrown" => rtOutcomes[n] # "value" /\ rtSettled = rtOutcomes[n]
      /\ rtOptions.retryOnRateLimit =>
           \A i \in 1 .. n - 1 : rtOutcomes[i] = "RateLimitExceededError"

\* whatever fn does at each attempt, the call of withRetry comes to an end
RetryTerminates == <>(rtPc \in {"returned", "thrown"})

(***************************************************************************)
(* Properties of the ConvAIProvider (specification SpecProvider)           *)
(***************************************************************************)
\* C30: reconnection is bounded and cancellable: the attempts counted since
\* the last successful start never exceed 5, a pending timer waits
\* min(30000, 1000 * 2^attempts) ms, at most one timer is pending, and once
\* stopAssistant has completed no reconnect timer is pending (so none fires
\* later), also when it was called while a startAssistant was in flight.
C30_ReconnectBoundedAndCancellable ==
  /\ reconnectAttempts <= maxReconnectAttempts
  /\ \A t \in timers :
       t.backoffTime = Min({30000, 1000 * 2 ^ t.attempts})
  /\ Cardinality(timers) <= 1
  /\ stopped => timers = {}


====
